---- MODULE Spec2Model ----
(***************************************************************************)
(* Model of jira-manager-pro (src/jira_project/src/project.jsx): the       *)
(* ticket-string parser, the TicketCard fallback, the facet derivation,    *)
(* the status ordering, the transition workflow of TransitionModal, the    *)
(* concurrent board loads and the mutation handlers; and of the analytics  *)
(* dashboard (src/unnamed/part_001): calculateMetrics and its consumers.   *)
(*                                                                         *)
(* A JavaScript string is a sequence of one-character strings, so that     *)
(* split, trim, the regular expressions and includes are computed on the   *)
(* characters as the code computes them.                                   *)
(***************************************************************************)
EXTENDS Integers, Sequences, FiniteSets, Bags, TLC

VARIABLES
    ticket,       \* TicketCard's prop: [str |-> is it a string, text |-> its characters]
    fields,       \* how the ticket string was built (input bookkeeping)
    ticketInfo,   \* TicketCard: const ticketInfo = parseTicketInfo(ticket)
    cardKey,      \* the key the rendered card hands to its callbacks
    cardPc,       \* TicketCard: "new", "parsed", "rendered", "thrown"
    callback,     \* the last callback a card button invoked: [name, key]
    loading,           \* JiraManagerPro: a board request is in flight
    error,             \* JiraManagerPro: the error message shown ("" for none)
    data,              \* the payload of the board request in flight, if one is
    tickets,           \* JiraManagerPro: the board, a sequence of [status, list] columns
    statuses,          \* getOrderedStatuses(Object.keys(tickets))
    uniqueAssignees,   \* the assignee filter options
    uniqueTypes,       \* the type filter options
    uniquePriorities,  \* the priority filter options
    selectedTicket,        \* JiraManagerPro: <<>> for null, <<key>> for a key
    modalTransition,       \* JiraManagerPro: modals.transition
    actionLoading,         \* JiraManagerPro: a mutation is in flight
    selectedTransition,    \* TransitionModal: the selected name, <<>> for ''
    comment,               \* TransitionModal: the closure comment
    availableTransitions,  \* TransitionModal: the names offered
    loadingTransitions,    \* TransitionModal: the transition list is loading
    commentSection,        \* TransitionModal: the comment field is rendered
    fetches,               \* the getTransitions calls in flight: a bag of ticket keys
    offer,                 \* the backend: the transition it offers beside Reopen
    lastResponse,          \* the getTransitions response the last step delivered, if any
    txPc,                  \* handleTransitionTicket: "idle", "sent", "reloading"
    txReq,                 \* the transition request in flight: [key, body]
    analytics,             \* ProfessionalAnalyticsDashboard: the analytics snapshot
    analyticsData,         \* the payload of the analytics request in flight, if one is
    analyticsLoading,      \* ProfessionalAnalyticsDashboard: loading
    analyticsError,        \* ProfessionalAnalyticsDashboard: error ("" for null)
    metrics,               \* const metrics = calculateMetrics()
    insight,               \* what the consumers render of the resolution time
    activeView,            \* ProfessionalAnalyticsDashboard: 'overview' or 'trends'
    boardCalls,            \* the loadTickets calls in flight: a set of call numbers
    issued,                \* how many loadTickets calls were issued
    lastResolved,          \* the loadTickets call that resolved last: [id, ok]
    modalCreate,           \* JiraManagerPro: modals.create
    modalEdit,             \* JiraManagerPro: modals.edit
    modalConfirm,          \* JiraManagerPro: modals.confirm
    handlers,              \* the mutation handlers running: a bag of [kind, pc]
    connectionStatus,      \* JiraManagerPro: 'unknown', 'connected', 'disconnected', 'error'
    healthCalls,           \* the checkHealth calls in flight: how many
    createData,            \* CreateTicketModal: formData
    createErrors,          \* CreateTicketModal: errors, the fields that carry a message
    formData,              \* EditTicketModal: formData
    originalData,          \* EditTicketModal: originalData, [loaded, values]
    detailsLoading,        \* EditTicketModal: detailsLoading
    editErrors,            \* EditTicketModal: errors.general ("" for none)
    detailFetches,         \* the getTicketDetails calls in flight: a bag of ticket keys
    updateReq,             \* the last update request sent: [sent, key, body]
    filters,               \* JiraManagerPro: filters
    boardRequests,         \* the endpoints of the getTickets calls the last handler made
    httpResponse,          \* the HTTP response a request received
    failure                \* what the caller of that request got: [pc, message]

parseVars == <<ticket, fields, ticketInfo, cardKey, cardPc, callback>>

facetVars == <<loading, error, data, tickets, statuses, uniqueAssignees, uniqueTypes, uniquePriorities>>

modalVars == <<selectedTicket, modalTransition, actionLoading, selectedTransition,
               comment, availableTransitions, loadingTransitions, commentSection,
               fetches, offer, lastResponse, txPc, txReq>>

analyticsVars == <<analytics, analyticsData, analyticsLoading, analyticsError,
                   metrics, insight, activeView>>

refreshVars == <<boardCalls, issued, lastResolved>>

mutationVars == <<modalCreate, modalEdit, modalConfirm, handlers>>

connVars == <<connectionStatus, healthCalls>>

createVars == <<createData, createErrors>>

editVars == <<formData, originalData, detailsLoading, editErrors, detailFetches, updateReq>>

filterVars == <<filters, boardRequests>>

requestVars == <<httpResponse, failure>>

clientVars == <<connVars, createVars, editVars, filterVars, requestVars>>

otherVars == <<analyticsVars, refreshVars, mutationVars, clientVars>>

vars == <<ticket, fields, ticketInfo, cardKey, cardPc, callback,
          loading, error, data, tickets, statuses, uniqueAssignees, uniqueTypes,
          uniquePriorities,
          selectedTicket, modalTransition, actionLoading, selectedTransition,
          comment, availableTransitions, loadingTransitions, commentSection,
          fetches, offer, lastResponse, txPc, txReq,
          analytics, analyticsData, analyticsLoading, analyticsError,
          metrics, insight, activeView,
          boardCalls, issued, lastResolved,
          modalCreate, modalEdit, modalConfirm, handlers,
          connectionStatus, healthCalls, createData, createErrors,
          formData, originalData, detailsLoading, editErrors, detailFetches, updateReq,
          filters, boardRequests, httpResponse, failure>>

(***************************************************************************)
(* Bounds                                                                  *)
(***************************************************************************)
\* longest raw ticket string, in tokens of RawTokens
MaxRawTokens == 4
\* most columns of a board whose columns are empty
MaxStatuses == 2
\* most ticket entries of a board over the two-column status set
MaxBoardTickets == 3
\* most getTransitions calls in flight at once
MaxFetches == 2
\* most weekly buckets older than the four recent ones
MaxOldWeeks == 1
\* most loadTickets calls issued in a behaviour
MaxBoardCalls == 4
\* most mutation handlers running at once
MaxMutations == 2
\* most tickets of a board whose keys are prefixes of one another
MaxLookupKeys == 3
\* most checkHealth calls in flight at once
MaxHealthCalls == 2
\* most getTicketDetails calls in flight at once
MaxDetailFetches == 2

(***************************************************************************)
(* Strings                                                                 *)
(***************************************************************************)
Null == [null |-> TRUE]

SEP == <<":", " ">>
Unassigned == <<"U", "n", "a", "s", "s", "i", "g", "n", "e", "d">>
NonAssigne == <<"N", "o", "n", " ", "a", "s", "s", "i", "g", "n", "é">>
Medium == <<"M", "e", "d", "i", "u", "m">>

\* white space of String.prototype.trim and of the regular expression \s
IsSpace(c) == c \in {" ", "\t", "\n", "\r"}

\* what the regular expression . does not match
IsLineTerminator(c) == c \in {"\n", "\r"}

SetMin(S) == CHOOSE x \in S : \A y \in S : x <= y
SetMax(S) == CHOOSE x \in S : \A y \in S : x >= y

\* s.trim()
Trim(s) ==
    LET solid == {i \in 1..Len(s) : ~IsSpace(s[i])}
    IN  IF solid = {} THEN <<>> ELSE SubSeq(s, SetMin(solid), SetMax(solid))

\* s.indexOf(sep), 1-based, 0 when absent
IndexOf(s, sep) ==
    LET hits == {i \in 1..(Len(s) - Len(sep) + 1) : SubSeq(s, i, i + Len(sep) - 1) = sep}
    IN  IF hits = {} THEN 0 ELSE SetMin(hits)

\* s.includes(sub)
Includes(s, sub) == IndexOf(s, sub) # 0

\* s.split(sep) for a non-empty separator: every occurrence splits
RECURSIVE Split(_, _)
Split(s, sep) ==
    LET i == IndexOf(s, sep)
    IN  IF i = 0 THEN <<s>>
        ELSE <<SubSeq(s, 1, i - 1)>> \o Split(SubSeq(s, i + Len(sep), Len(s)), sep)

\* the exec loop over /\[([^\]]+)\]/g: the captures, in order
RECURSIVE BracketGroups(_)
BracketGroups(s) ==
    LET closes(i) == {j \in (i + 1)..Len(s) : s[j] = "]"}
        opens == {i \in 1..Len(s) : /\ s[i] = "["
                                    /\ closes(i) # {}
                                    /\ SetMin(closes(i)) > i + 1}
    IN  IF opens = {} THEN <<>>
        ELSE LET i == SetMin(opens)
                 j == SetMin(closes(i))
             IN  <<SubSeq(s, i + 1, j - 1)>> \o BracketGroups(SubSeq(s, j + 1, Len(s)))

\* rest.match(/^(.+?)\s*\[/): the capture in a 1-tuple, <<>> when there is no match
SummaryMatch(rest) ==
    LET ks == {k \in 1..Len(rest) :
                 /\ \A p \in 1..k : ~IsLineTerminator(rest[p])
                 /\ \E m \in k..(Len(rest) - 1) :
                       /\ \A q \in (k + 1)..m : IsSpace(rest[q])
                       /\ rest[m + 1] = "["}
    IN  IF ks = {} THEN <<>> ELSE <<SubSeq(rest, 1, SetMin(ks))>>

(***************************************************************************)
(* parseTicketInfo                                                         *)
(***************************************************************************)
\* the element the code reads as the remainder
RestOf(parts) == parts[2]

ParseSummary(rest) ==
    LET summaryMatch == SummaryMatch(rest)
    IN  IF summaryMatch # <<>> THEN Trim(summaryMatch[1]) ELSE Trim(rest)

ParseAssignee(brackets) ==
    IF brackets[1] = Unassigned THEN NonAssigne ELSE brackets[1]

parseTicketInfo(ticketString) ==
    IF ~ticketString.str
    THEN Null   \* ticketString.split is not a function: caught, null
    ELSE LET parts == Split(ticketString.text, SEP)
         IN  IF Len(parts) < 2 THEN Null
             ELSE LET key == Trim(parts[1])
                      rest == RestOf(parts)
                      brackets == BracketGroups(rest)
                  IN  IF Len(brackets) >= 3
                      THEN [key |-> key,
                            summary |-> ParseSummary(rest),
                            assignee |-> ParseAssignee(brackets),
                            issueType |-> brackets[2],
                            priority |-> IF brackets[3] # <<>> THEN brackets[3] ELSE Medium]
                      ELSE IF Len(brackets) >= 2
                      THEN [key |-> key,
                            summary |-> ParseSummary(rest),
                            assignee |-> ParseAssignee(brackets),
                            issueType |-> brackets[2],
                            priority |-> Medium]
                      ELSE Null

(***************************************************************************)
(* TicketCard                                                              *)
(***************************************************************************)
\* FallbackKey without the trim
FallbackKey_NoTrim(text) == Split(text, <<":">>)[1]

\* ticket.split(':')[0].trim()
FallbackKey(text) == Trim(Split(text, <<":">>)[1])

NoCall == [name |-> "none", key |-> <<>>]

\* inputs: encodings of the documented format, and raw strings
Encode3(K, S, A, T, P) ==
    K \o SEP \o S \o <<" ", "[">> \o A \o <<"]", " ", "[">> \o T
      \o <<"]", " ", "[">> \o P \o <<"]">>

Encode2(K, S, A, T) ==
    K \o SEP \o S \o <<" ", "[">> \o A \o <<"]", " ", "[">> \o T \o <<"]">>

KeyPool == {<<"K">>, <<" ", "K">>, <<"K", ":">>}
SummaryPool == {<<"s">>, <<"s", " ", "t">>, <<" ", "s", " ">>, <<"a", ":", " ", "b">>,
                <<"s", ":">>, <<"a", "\n", "b">>, <<>>}
AssigneePool == {<<"A">>, Unassigned, <<"a", ":", " ", "b">>, <<"[", "x">>}
TypePool == {<<"T">>, <<"t", ":", " ", "u">>}
PriorityPool == {<<"P">>, <<"p", ":", " ", "q">>}

RawTokens == {<<"K">>, <<":", " ">>, <<"[", "a", "]">>, <<"[">>, <<"]">>, <<" ">>, <<":">>}

RECURSIVE RawStrings(_)
RawStrings(n) ==
    IF n = 0 THEN {<<>>}
    ELSE LET shorter == RawStrings(n - 1)
         IN  shorter \cup {s \o t : s \in shorter, t \in RawTokens}

TicketInputs ==
    {[form |-> "three", K |-> K, S |-> S, A |-> A, T |-> T, P |-> P,
      ticket |-> [str |-> TRUE, text |-> Encode3(K, S, A, T, P)]] :
        K \in KeyPool, S \in SummaryPool, A \in AssigneePool, T \in TypePool,
        P \in PriorityPool}
    \cup
    {[form |-> "two", K |-> K, S |-> S, A |-> A, T |-> T, P |-> <<>>,
      ticket |-> [str |-> TRUE, text |-> Encode2(K, S, A, T)]] :
        K \in KeyPool, S \in SummaryPool, A \in AssigneePool, T \in TypePool}
    \cup
    {[form |-> "raw", K |-> <<>>, S |-> <<>>, A |-> <<>>, T |-> <<>>, P |-> <<>>,
      ticket |-> [str |-> TRUE, text |-> s]] : s \in RawStrings(MaxRawTokens)}
    \cup
    {[form |-> "raw", K |-> <<>>, S |-> <<>>, A |-> <<>>, T |-> <<>>, P |-> <<>>,
      ticket |-> [str |-> FALSE, text |-> <<>>]]}

ParseInit ==
    /\ \E in \in TicketInputs :
          /\ ticket = in.ticket
          /\ fields = [form |-> in.form, K |-> in.K, S |-> in.S, A |-> in.A,
                       T |-> in.T, P |-> in.P]
    /\ ticketInfo = Null
    /\ cardKey = <<>>
    /\ cardPc = "new"
    /\ callback = NoCall

\* TicketCard, line 248
TicketCardParse ==
    /\ cardPc = "new"
    /\ ticketInfo' = parseTicketInfo(ticket)
    /\ cardPc' = "parsed"
    /\ UNCHANGED <<ticket, fields, cardKey, callback>>
    /\ UNCHANGED <<facetVars, modalVars, otherVars>>

\* TicketCard, the fallback branch
TicketCardFallback ==
    /\ cardPc = "parsed"
    /\ ticketInfo = Null
    /\ ticket.str
    /\ cardKey' = FallbackKey(ticket.text)
    /\ cardPc' = "rendered"
    /\ UNCHANGED <<ticket, fields, ticketInfo, callback>>
    /\ UNCHANGED <<facetVars, modalVars, otherVars>>

\* TicketCard, the fallback branch on a value without split: render throws
TicketCardThrow ==
    /\ cardPc = "parsed"
    /\ ticketInfo = Null
    /\ ~ticket.str
    /\ cardPc' = "thrown"
    /\ UNCHANGED <<ticket, fields, ticketInfo, cardKey, callback>>
    /\ UNCHANGED <<facetVars, modalVars, otherVars>>

\* TicketCard, the parsed branch
TicketCardRender ==
    /\ cardPc = "parsed"
    /\ ticketInfo # Null
    /\ cardKey' = ticketInfo.key
    /\ cardPc' = "rendered"
    /\ UNCHANGED <<ticket, fields, ticketInfo, callback>>
    /\ UNCHANGED <<facetVars, modalVars, otherVars>>

\* a click on one of the card's three buttons
TicketCardClick ==
    /\ cardPc = "rendered"
    /\ \E name \in {"onEdit", "onTransition", "onDelete"} :
          callback' = [name |-> name, key |-> cardKey]
    /\ UNCHANGED <<ticket, fields, ticketInfo, cardKey, cardPc>>
    /\ UNCHANGED <<facetVars, modalVars, otherVars>>

ParseNext ==
    \/ TicketCardParse
    \/ TicketCardFallback
    \/ TicketCardThrow
    \/ TicketCardRender
    \/ TicketCardClick



(***************************************************************************)
(* Character order and collation                                           *)
(***************************************************************************)
UpperLetters == <<"A", "B", "C", "D", "E", "F", "G", "H", "I", "J", "K", "L", "M",
                  "N", "O", "P", "Q", "R", "S", "T", "U", "V", "W", "X", "Y", "Z">>
LowerLetters == <<"a", "b", "c", "d", "e", "f", "g", "h", "i", "j", "k", "l", "m",
                  "n", "o", "p", "q", "r", "s", "t", "u", "v", "w", "x", "y", "z">>
Digits == <<"0", "1", "2", "3", "4", "5", "6", "7", "8", "9">>

\* the characters of the model in ascending UTF-16 code unit order
CodeUnitOrder ==
    <<"\t", "\n", "\r", " ", "-">> \o Digits \o <<":">> \o UpperLetters
      \o <<"[", "]">> \o LowerLetters \o <<"À", "É", "à", "é">>

\* the characters of the model in the primary order of the default collation:
\* white space, punctuation, digits, letters (case and accents ignored)
PrimaryOrder ==
    <<"\t", "\n", "\r", " ", "-", ":", "[", "]">> \o Digits \o LowerLetters

PosIn(seq, c) == CHOOSE i \in 1..Len(seq) : seq[i] = c

IsUpper(c) == c \in {"À", "É"} \/ \E i \in 1..Len(UpperLetters) : UpperLetters[i] = c

IsAccented(c) == c \in {"À", "É", "à", "é"}

ToLowerChar(c) ==
    IF c = "À" THEN "à"
    ELSE IF c = "É" THEN "é"
    ELSE IF IsUpper(c) THEN LowerLetters[PosIn(UpperLetters, c)]
    ELSE c

\* s.toLowerCase()
ToLowerCase(s) == [i \in 1..Len(s) |-> ToLowerChar(s[i])]

BaseLetter(c) ==
    IF c \in {"À", "à"} THEN "a"
    ELSE IF c \in {"É", "é"} THEN "e"
    ELSE ToLowerChar(c)

\* lexicographic comparison of two sequences of numbers: -1, 0 or 1
CompareWeights(x, y) ==
    LET diff == {i \in 1..Len(x) : i > Len(y) \/ x[i] # y[i]}
    IN  IF diff = {}
        THEN (IF Len(x) = Len(y) THEN 0 ELSE -1)
        ELSE LET i == SetMin(diff)
             IN  IF i > Len(y) THEN 1
                 ELSE IF x[i] < y[i] THEN -1 ELSE 1

\* the comparison of the default sort(): UTF-16 code units
CompareCodeUnits(a, b) ==
    CompareWeights([i \in 1..Len(a) |-> PosIn(CodeUnitOrder, a[i])],
                   [i \in 1..Len(b) |-> PosIn(CodeUnitOrder, b[i])])

\* a.localeCompare(b): base letters first, then accents, then case
\* (lower case before upper case)
LocaleCompare(a, b) ==
    LET primary(s) == [i \in 1..Len(s) |-> PosIn(PrimaryOrder, BaseLetter(s[i]))]
        secondary(s) == [i \in 1..Len(s) |-> IF IsAccented(s[i]) THEN 1 ELSE 0]
        tertiary(s) == [i \in 1..Len(s) |-> IF IsUpper(s[i]) THEN 1 ELSE 0]
        p == CompareWeights(primary(a), primary(b))
        q == CompareWeights(secondary(a), secondary(b))
    IN  IF p # 0 THEN p
        ELSE IF q # 0 THEN q
        ELSE CompareWeights(tertiary(a), tertiary(b))

(***************************************************************************)
(* getOrderedStatuses                                                      *)
(***************************************************************************)
St_A_faire_accent == <<"À", " ", "f", "a", "i", "r", "e">>
St_A_faire == <<"A", " ", "f", "a", "i", "r", "e">>
St_Todo == <<"T", "o", "d", "o">>
St_TO_DO == <<"T", "O", " ", "D", "O">>
St_Open == <<"O", "p", "e", "n">>
St_En_cours == <<"E", "n", " ", "c", "o", "u", "r", "s">>
St_IN_PROGRESS == <<"I", "N", " ", "P", "R", "O", "G", "R", "E", "S", "S">>
St_In_Progress == <<"I", "n", " ", "P", "r", "o", "g", "r", "e", "s", "s">>
St_Progress == <<"P", "r", "o", "g", "r", "e", "s", "s">>
St_Termine == <<"T", "e", "r", "m", "i", "n", "é">>
St_Terminee == <<"T", "e", "r", "m", "i", "n", "é", "e">>
St_Terminees == <<"T", "e", "r", "m", "i", "n", "é", "e", "s">>
St_Done == <<"D", "o", "n", "e">>
St_DONE == <<"D", "O", "N", "E">>
St_Closed == <<"C", "l", "o", "s", "e", "d">>
St_Resolved == <<"R", "e", "s", "o", "l", "v", "e", "d">>
\* labels that are no key of statusOrder
St_Termines == <<"T", "e", "r", "m", "i", "n", "é", "s">>
St_Mystery == <<"M", "y", "s", "t", "e", "r", "y">>

statusOrder ==
    {<<St_A_faire_accent, 1>>, <<St_A_faire, 1>>, <<St_Todo, 1>>, <<St_TO_DO, 1>>,
     <<St_Open, 1>>,
     <<St_En_cours, 2>>, <<St_IN_PROGRESS, 2>>, <<St_In_Progress, 2>>, <<St_Progress, 2>>,
     <<St_Termine, 3>>, <<St_Terminee, 3>>, <<St_Terminees, 3>>, <<St_Done, 3>>,
     <<St_DONE, 3>>, <<St_Closed, 3>>, <<St_Resolved, 3>>}

UnknownOrder == 999

\* statusOrder[a] || 999
StatusRank(a) ==
    IF \E e \in statusOrder : e[1] = a
    THEN (CHOOSE e \in statusOrder : e[1] = a)[2]
    ELSE UnknownOrder

\* the comparator handed to sort
CompareStatuses(a, b) ==
    LET orderA == StatusRank(a)
        orderB == StatusRank(b)
    IN  IF orderA # orderB THEN orderA - orderB ELSE LocaleCompare(a, b)

\* insertion of x behind the elements that do not compare greater (a stable sort)
InsertStatus(sorted, x) ==
    LET greater == {i \in 1..Len(sorted) : CompareStatuses(sorted[i], x) > 0}
        k == IF greater = {} THEN Len(sorted) + 1 ELSE SetMin(greater)
    IN  SubSeq(sorted, 1, k - 1) \o <<x>> \o SubSeq(sorted, k, Len(sorted))

RECURSIVE getOrderedStatuses(_)
getOrderedStatuses(keys) ==
    IF keys = <<>> THEN <<>>
    ELSE InsertStatus(getOrderedStatuses(SubSeq(keys, 1, Len(keys) - 1)), keys[Len(keys)])

(***************************************************************************)
(* The filter facets                                                       *)
(***************************************************************************)
Low == <<"L", "o", "w">>
High == <<"H", "i", "g", "h">>
Highest == <<"H", "i", "g", "h", "e", "s", "t">>
AVAILABLE_PRIORITIES == <<Low, Medium, High, Highest>>

Range(seq) == {seq[i] : i \in 1..Len(seq)}

\* Object.keys(tickets)
ObjectKeys(board) == [i \in 1..Len(board) |-> board[i].status]

\* Object.values(tickets).flat()
RECURSIVE FlatValues(_)
FlatValues(board) ==
    IF board = <<>> THEN <<>> ELSE board[1].list \o FlatValues(Tail(board))

\* set.add(x) on a Set kept in insertion order
SetAdd(set, x) == IF x \in Range(set) THEN set ELSE Append(set, x)

\* the default sort() of an array of strings
InsertString(sorted, x) ==
    LET greater == {i \in 1..Len(sorted) : CompareCodeUnits(sorted[i], x) > 0}
        k == IF greater = {} THEN Len(sorted) + 1 ELSE SetMin(greater)
    IN  SubSeq(sorted, 1, k - 1) \o <<x>> \o SubSeq(sorted, k, Len(sorted))

RECURSIVE SortStrings(_)
SortStrings(seq) ==
    IF seq = <<>> THEN <<>>
    ELSE InsertString(SortStrings(SubSeq(seq, 1, Len(seq) - 1)), seq[Len(seq)])

\* the forEach of uniqueAssignees without the test against Non assigné
RECURSIVE AssigneeSet_KeepSentinel(_, _)
AssigneeSet_KeepSentinel(entries, assignees) ==
    IF entries = <<>> THEN assignees
    ELSE LET info == parseTicketInfo(entries[1])
         IN  AssigneeSet_KeepSentinel(Tail(entries),
                 IF info # Null /\ info.assignee # <<>>
                 THEN SetAdd(assignees, info.assignee) ELSE assignees)

\* the forEach of uniqueAssignees
RECURSIVE AssigneeSet(_, _)
AssigneeSet(entries, assignees) ==
    IF entries = <<>> THEN assignees
    ELSE LET info == parseTicketInfo(entries[1])
         IN  AssigneeSet(Tail(entries),
                 IF info # Null /\ info.assignee # <<>> /\ info.assignee # NonAssigne
                 THEN SetAdd(assignees, info.assignee) ELSE assignees)

\* the forEach of uniqueTypes
RECURSIVE TypeSet(_, _)
TypeSet(entries, types) ==
    IF entries = <<>> THEN types
    ELSE LET info == parseTicketInfo(entries[1])
         IN  TypeSet(Tail(entries),
                 IF info # Null /\ info.issueType # <<>>
                 THEN SetAdd(types, info.issueType) ELSE types)

\* the first forEach of uniquePriorities
RECURSIVE PrioritySet(_, _)
PrioritySet(entries, priorities) ==
    IF entries = <<>> THEN priorities
    ELSE LET info == parseTicketInfo(entries[1])
         IN  PrioritySet(Tail(entries),
                 IF info # Null /\ info.priority # <<>>
                 THEN SetAdd(priorities, info.priority) ELSE priorities)

\* the second forEach of uniquePriorities
RECURSIVE AddAll(_, _)
AddAll(set, xs) == IF xs = <<>> THEN set ELSE AddAll(SetAdd(set, xs[1]), Tail(xs))

UniqueAssigneesOf_KeepSentinel(board) ==
    AssigneeSet_KeepSentinel(FlatValues(board), <<>>)

UniqueAssigneesOf(board) == AssigneeSet(FlatValues(board), <<>>)

UniqueTypesOf(board) == SortStrings(TypeSet(FlatValues(board), <<>>))

UniquePrioritiesOf(board) ==
    SortStrings(AddAll(PrioritySet(FlatValues(board), <<>>), AVAILABLE_PRIORITIES))

\* inputs: boards of empty columns under any labels, the board of the spec's
\* example, and boards of ticket entries under two labels
StatusUniverse ==
    {St_A_faire_accent, St_A_faire, St_Todo, St_TO_DO, St_Open, St_En_cours,
     St_IN_PROGRESS, St_In_Progress, St_Progress, St_Termine, St_Terminee,
     St_Terminees, St_Termines, St_Done, St_DONE, St_Closed, St_Resolved, St_Mystery}

RECURSIVE DistinctSeqs(_, _)
DistinctSeqs(S, n) ==
    IF n = 0 THEN {<<>>}
    ELSE LET shorter == DistinctSeqs(S, n - 1)
         IN  shorter \cup UNION {{Append(q, x) : x \in S \ Range(q)} : q \in shorter}

Column(status, list) == [status |-> status, list |-> list]

ExampleKeys == <<St_Done, St_A_faire_accent, St_En_cours, St_Mystery>>

EmptyColumnBoards ==
    {[i \in 1..Len(keys) |-> Column(keys[i], <<>>)] :
        keys \in DistinctSeqs(StatusUniverse, MaxStatuses) \cup {ExampleKeys}}

Str(text) == [str |-> TRUE, text |-> text]
NotAString == [str |-> FALSE, text |-> <<>>]

BoardTicketPool ==
    {Str(Encode3(<<"K">>, <<"s">>, <<"A">>, <<"T">>, <<"P">>)),
     Str(Encode3(<<"K">>, <<"s">>, Unassigned, <<"T">>, High)),
     Str(Encode2(<<"K">>, <<"s">>, <<"B">>, <<"U">>)),
     Str(Encode3(<<"K">>, <<"a", ":", " ", "b">>, <<"C">>, <<"T">>, <<"Q">>)),
     Str(<<"K">>),
     NotAString}

RECURSIVE TicketLists(_)
TicketLists(n) ==
    IF n = 0 THEN {<<>>}
    ELSE LET shorter == TicketLists(n - 1)
         IN  shorter \cup {Append(l, t) : l \in shorter, t \in BoardTicketPool}

TicketBoards ==
    {<<Column(St_Done, l)>> : l \in TicketLists(MaxBoardTickets)}
    \cup
    UNION {{<<Column(St_Done, SubSeq(l, 1, k)),
              Column(St_A_faire_accent, SubSeq(l, k + 1, Len(l)))>> : k \in 0..Len(l)} :
           l \in TicketLists(MaxBoardTickets)}

BoardInputs == EmptyColumnBoards \cup TicketBoards

NoData == [pending |-> FALSE, board |-> <<>>]

\* what the derived values are for a board
Derived(board) ==
    /\ statuses' = getOrderedStatuses(ObjectKeys(board))
    /\ uniqueAssignees' = UniqueAssigneesOf(board)
    /\ uniqueTypes' = UniqueTypesOf(board)
    /\ uniquePriorities' = UniquePrioritiesOf(board)

\* useState({}) and the values derived from it at the first render
FacetRest ==
    /\ error = ""
    /\ tickets = <<>>
    /\ statuses = <<>>
    /\ uniqueAssignees = <<>>
    /\ uniqueTypes = <<>>
    /\ uniquePriorities = SortStrings(AVAILABLE_PRIORITIES)

\* no board request is in flight and none was answered
FacetIdle == loading = FALSE /\ data = NoData /\ FacetRest

\* the first loadTickets is in flight; the backend will answer with any board
FacetInit ==
    /\ loading = TRUE
    /\ \E board \in BoardInputs : data = [pending |-> TRUE, board |-> board]
    /\ FacetRest

\* loadTickets, the request resolved: setTickets(data), and the render
SetTickets ==
    /\ data.pending
    /\ data' = NoData
    /\ tickets' = data.board
    /\ Derived(data.board)
    /\ loading' = FALSE
    /\ UNCHANGED error

\* loadTickets, the request failed: setError, setTickets({}), and the render
LoadTicketsFails ==
    /\ data.pending
    /\ data' = NoData
    /\ error' = "Impossible de charger les tickets"
    /\ tickets' = <<>>
    /\ Derived(<<>>)
    /\ loading' = FALSE

\* the first load of the board resolves
BoardLoads == SetTickets /\ UNCHANGED <<parseVars, modalVars, otherVars>>

\* the first load of the board fails
BoardLoadFails == LoadTicketsFails /\ UNCHANGED <<parseVars, modalVars, otherVars>>

FacetNext ==
    \/ BoardLoads
    \/ BoardLoadFails

\* no card is rendered
ParseIdle ==
    /\ ticket = NotAString
    /\ fields = [form |-> "raw", K |-> <<>>, S |-> <<>>, A |-> <<>>, T |-> <<>>, P |-> <<>>]
    /\ ticketInfo = Null
    /\ cardKey = <<>>
    /\ cardPc = "none"
    /\ callback = NoCall

(***************************************************************************)
(* TransitionModal and handleTransitionTicket                              *)
(***************************************************************************)
\* isTransitionToDone without the toLowerCase
isTransitionToDone_CaseSensitive(transitionName) ==
    \/ Includes(transitionName, <<"d", "o", "n", "e">>)
    \/ Includes(transitionName, <<"t", "e", "r", "m", "i", "n", "é">>)
    \/ Includes(transitionName, <<"t", "e", "r", "m", "i", "n", "e">>)
    \/ Includes(transitionName, <<"c", "l", "o", "s", "e">>)
    \/ Includes(transitionName, <<"r", "e", "s", "o", "l", "v", "e">>)

isTransitionToDone(transitionName) ==
    LET normalizedTransition == ToLowerCase(transitionName)
    IN  \/ Includes(normalizedTransition, <<"d", "o", "n", "e">>)
        \/ Includes(normalizedTransition, <<"t", "e", "r", "m", "i", "n", "é">>)
        \/ Includes(normalizedTransition, <<"t", "e", "r", "m", "i", "n", "e">>)
        \/ Includes(normalizedTransition, <<"c", "l", "o", "s", "e">>)
        \/ Includes(normalizedTransition, <<"r", "e", "s", "o", "l", "v", "e">>)

\* the condition that renders the comment field
ShowComment(name) == name # <<>> /\ isTransitionToDone(name)

\* the disabled attribute of the submit button, without the comment test
SubmitDisabled_NoCommentTest ==
    \/ actionLoading
    \/ selectedTransition = <<>>
    \/ loadingTransitions

\* the disabled attribute of the submit button
SubmitDisabled ==
    \/ actionLoading
    \/ selectedTransition = <<>>
    \/ loadingTransitions
    \/ isTransitionToDone(selectedTransition) /\ Trim(comment) = <<>>

\* apiService.transitionTicket: the body of the request
TransitionPayload(transitionName, text) ==
    IF text # <<>> /\ Trim(text) # <<>>
    THEN [transition_name |-> transitionName, hasComment |-> TRUE, comment |-> Trim(text)]
    ELSE [transition_name |-> transitionName, hasComment |-> FALSE, comment |-> <<>>]

\* loadTransitions: the options a response gives, without the test of success
OfferedTransitions_NoSuccessTest(response) ==
    IF ~response.thrown /\ response.hasTransitions THEN response.names ELSE <<>>

\* loadTransitions: the options a response gives
OfferedTransitions(response) ==
    IF ~response.thrown /\ response.success /\ response.hasTransitions
    THEN response.names
    ELSE <<>>

\* inputs: ticket keys (the fallback key of a card may be empty), transition
\* names, responses of the transitions endpoint, comments
Key1 == <<"K", "-", "1">>
Key2 == <<"K", "-", "2">>
TicketKeys == {Key1, Key2, <<>>}

Tr_Mark_as_Done == <<"M", "a", "r", "k", " ", "a", "s", " ", "D", "o", "n", "e">>
Tr_Reopen == <<"R", "e", "o", "p", "e", "n">>

TransitionNames ==
    {Tr_Mark_as_Done,
     <<"D", "o", "n">>,
     <<"T", "E", "R", "M", "I", "N", "É">>,
     <<"T", "e", "r", "m", "i", "n", "e", "r">>,
     <<"T", "e", "r", "m", "i", "n">>,
     <<"C", "L", "O", "S", "E">>,
     <<"R", "e", "s", "o", "l", "v", "e", "d">>,
     <<"R", "e", "s", "o", "l", "u", "t", "i", "o", "n">>,
     <<"S", "t", "a", "r", "t", " ", "P", "r", "o", "g", "r", "e", "s", "s">>}

NoResponse == [thrown |-> FALSE, success |-> FALSE, hasTransitions |-> FALSE, names |-> <<>>]

\* what the transitions endpoint may answer while the backend offers name
TransitionResponses(name) ==
    {[thrown |-> FALSE, success |-> TRUE, hasTransitions |-> TRUE, names |-> <<name, Tr_Reopen>>],
     [thrown |-> FALSE, success |-> TRUE, hasTransitions |-> TRUE, names |-> <<>>],
     [thrown |-> FALSE, success |-> TRUE, hasTransitions |-> FALSE, names |-> <<>>],
     [thrown |-> FALSE, success |-> FALSE, hasTransitions |-> TRUE, names |-> <<name>>],
     [thrown |-> TRUE, success |-> FALSE, hasTransitions |-> FALSE, names |-> <<>>]}

CommentPool == {<<>>, <<" ">>, <<" ", "o", "k", " ">>}

\* the board the reload after a transition may bring
ReloadBoards ==
    {<<Column(St_Done, <<Str(Encode3(Key1, <<"s">>, <<"A">>, <<"T">>, High))>>)>>}

NoRequest == [key |-> <<>>, body |-> TransitionPayload(<<>>, <<>>)]

\* the modal states after construction
ModalIdle ==
    /\ selectedTicket = <<>>
    /\ modalTransition = FALSE
    /\ actionLoading = FALSE
    /\ selectedTransition = <<>>
    /\ comment = <<>>
    /\ availableTransitions = <<>>
    /\ loadingTransitions = FALSE
    /\ commentSection = FALSE
    /\ fetches = EmptyBag
    /\ offer = Tr_Reopen
    /\ lastResponse = NoResponse
    /\ txPc = "idle"
    /\ txReq = NoRequest

\* the modal states after construction, in front of any backend
ModalInit ==
    /\ selectedTicket = <<>>
    /\ modalTransition = FALSE
    /\ actionLoading = FALSE
    /\ selectedTransition = <<>>
    /\ comment = <<>>
    /\ availableTransitions = <<>>
    /\ loadingTransitions = FALSE
    /\ commentSection = FALSE
    /\ fetches = EmptyBag
    /\ offer \in TransitionNames
    /\ lastResponse = NoResponse
    /\ txPc = "idle"
    /\ txReq = NoRequest

\* JavaScript truthiness of ticketKey
Truthy(sel) == sel # <<>> /\ sel[1] # <<>>

\* onTransition(key): openModal('transition', key), and the effect that calls
\* loadTransitions when the modal is open for a truthy key
OpenTransitionModal ==
    /\ ~modalTransition
    /\ BagCardinality(fetches) < MaxFetches
    /\ \E key \in TicketKeys :
          /\ selectedTicket' = <<key>>
          /\ IF Truthy(<<key>>)
             THEN /\ loadingTransitions' = TRUE
                  /\ fetches' = fetches (+) SetToBag({key})
             ELSE UNCHANGED <<loadingTransitions, fetches>>
    /\ modalTransition' = TRUE
    /\ UNCHANGED <<actionLoading, selectedTransition, comment, availableTransitions,
                   commentSection, txPc, txReq>>
    /\ UNCHANGED facetVars
    /\ lastResponse' = NoResponse
    /\ UNCHANGED <<offer, parseVars, otherVars>>

\* onClose (the header button, or Annuler while no mutation is pending):
\* closeModal('transition'), and the effect that resets the form
CloseTransitionModal ==
    /\ modalTransition
    /\ modalTransition' = FALSE
    /\ selectedTicket' = <<>>
    /\ selectedTransition' = <<>>
    /\ comment' = <<>>
    /\ availableTransitions' = <<>>
    /\ commentSection' = FALSE
    /\ UNCHANGED <<actionLoading, loadingTransitions, fetches, txPc, txReq>>
    /\ UNCHANGED facetVars
    /\ lastResponse' = NoResponse
    /\ UNCHANGED <<offer, parseVars, otherVars>>

\* loadTransitions, the request resolved or failed
ResolveTransitions ==
    \E key \in BagToSet(fetches), response \in TransitionResponses(offer) :
        /\ fetches' = fetches (-) SetToBag({key})
        /\ lastResponse' = response
        /\ availableTransitions' = OfferedTransitions(response)
        /\ loadingTransitions' = FALSE
        /\ UNCHANGED <<selectedTicket, modalTransition, actionLoading, selectedTransition,
                       comment, commentSection, txPc, txReq>>
        /\ UNCHANGED facetVars
        /\ UNCHANGED <<offer, parseVars, otherVars>>

\* the select element, rendered when the list is not loading
SelectTransition ==
    /\ modalTransition
    /\ ~loadingTransitions
    /\ \E name \in Range(availableTransitions) \cup {<<>>} :
          /\ selectedTransition' = name
          /\ commentSection' = ShowComment(name)
    /\ UNCHANGED <<selectedTicket, modalTransition, actionLoading, comment,
                   availableTransitions, loadingTransitions, fetches,
                   txPc, txReq>>
    /\ UNCHANGED facetVars
    /\ lastResponse' = NoResponse
    /\ UNCHANGED <<offer, parseVars, otherVars>>

\* the textarea, rendered for a selected transition that leads to done
EditComment ==
    /\ modalTransition
    /\ commentSection
    /\ \E text \in CommentPool : comment' = text
    /\ UNCHANGED <<selectedTicket, modalTransition, actionLoading, selectedTransition,
                   availableTransitions, loadingTransitions, commentSection, fetches, txPc, txReq>>
    /\ UNCHANGED facetVars
    /\ lastResponse' = NoResponse
    /\ UNCHANGED <<offer, parseVars, otherVars>>

\* the submit button: handleSubmit, handleTransitionTicket up to the request
SubmitTransition ==
    /\ modalTransition
    /\ ~SubmitDisabled
    /\ commentSection => comment # <<>>      \* the required attribute
    /\ selectedTransition # <<>>
    /\ txPc = "idle"
    /\ actionLoading' = TRUE
    /\ txReq' = [key |-> selectedTicket,
                 body |-> TransitionPayload(selectedTransition, comment)]
    /\ txPc' = "sent"
    /\ UNCHANGED <<selectedTicket, modalTransition, selectedTransition, comment,
                   availableTransitions, loadingTransitions, commentSection, fetches>>
    /\ UNCHANGED facetVars
    /\ lastResponse' = NoResponse
    /\ UNCHANGED <<offer, parseVars, otherVars>>

\* handleTransitionTicket: result.success, loadTickets() is called
TransitionSucceeds ==
    /\ txPc = "sent"
    /\ ~data.pending
    /\ txPc' = "reloading"
    /\ loading' = TRUE
    /\ error' = ""
    /\ \E board \in ReloadBoards : data' = [pending |-> TRUE, board |-> board]
    /\ UNCHANGED <<tickets, statuses, uniqueAssignees, uniqueTypes, uniquePriorities>>
    /\ UNCHANGED <<selectedTicket, modalTransition, actionLoading, selectedTransition,
                   comment, availableTransitions, loadingTransitions, commentSection,
                   fetches, txReq>>
    /\ lastResponse' = NoResponse
    /\ UNCHANGED <<offer, parseVars, otherVars>>

\* handleTransitionTicket failing, were handleSubmit to reset the form whatever
\* onSubmit returns
TransitionFails_ResetsForm ==
    /\ txPc = "sent"
    /\ txPc' = "idle"
    /\ actionLoading' = FALSE
    /\ \/ error' = "Erreur lors du changement de statut"
       \/ UNCHANGED error
    /\ UNCHANGED <<loading, data, tickets, statuses, uniqueAssignees, uniqueTypes,
                   uniquePriorities>>
    /\ txReq' = NoRequest
    /\ selectedTransition' = <<>>
    /\ comment' = <<>>
    /\ commentSection' = FALSE
    /\ UNCHANGED <<selectedTicket, modalTransition,
                   availableTransitions, loadingTransitions, fetches>>
    /\ lastResponse' = NoResponse
    /\ UNCHANGED <<offer, parseVars, otherVars>>

\* handleTransitionTicket: the request throws (setError) or answers without
\* success; the handler returns false and the modal stays as it is
TransitionFails ==
    /\ txPc = "sent"
    /\ txPc' = "idle"
    /\ actionLoading' = FALSE
    /\ \/ error' = "Erreur lors du changement de statut"
       \/ UNCHANGED error
    /\ UNCHANGED <<loading, data, tickets, statuses, uniqueAssignees, uniqueTypes,
                   uniquePriorities>>
    /\ txReq' = NoRequest
    /\ UNCHANGED <<selectedTicket, modalTransition, selectedTransition, comment,
                   availableTransitions, loadingTransitions, commentSection, fetches>>
    /\ lastResponse' = NoResponse
    /\ UNCHANGED <<offer, parseVars, otherVars>>

\* handleTransitionTicket returns true after the reload; handleSubmit resets the
\* form and calls onClose; the reset effect runs when isOpen changes
TransitionDone ==
    /\ txPc = "reloading"
    /\ ~data.pending
    /\ txPc' = "idle"
    /\ actionLoading' = FALSE
    /\ selectedTransition' = <<>>
    /\ comment' = <<>>
    /\ commentSection' = FALSE
    /\ modalTransition' = FALSE
    /\ selectedTicket' = <<>>
    /\ availableTransitions' = IF modalTransition THEN <<>> ELSE availableTransitions
    /\ txReq' = NoRequest
    /\ UNCHANGED <<loadingTransitions, fetches>>
    /\ UNCHANGED facetVars
    /\ lastResponse' = NoResponse
    /\ UNCHANGED <<offer, parseVars, otherVars>>

\* the reload of the board resolves
ReloadResolves ==
    /\ txPc = "reloading"
    /\ SetTickets \/ LoadTicketsFails
    /\ lastResponse' = NoResponse
    /\ UNCHANGED <<selectedTicket, modalTransition, actionLoading, selectedTransition,
                   comment, availableTransitions, loadingTransitions, commentSection,
                   fetches, offer, txPc, txReq>>
    /\ UNCHANGED <<parseVars, otherVars>>

ModalNext ==
    \/ OpenTransitionModal
    \/ CloseTransitionModal
    \/ ResolveTransitions
    \/ SelectTransition
    \/ EditComment
    \/ SubmitTransition
    \/ TransitionSucceeds
    \/ TransitionFails
    \/ TransitionDone
    \/ ReloadResolves

(***************************************************************************)
(* ProfessionalAnalyticsDashboard (src/unnamed/part_001)                    *)
(*                                                                         *)
(* A JavaScript number is an exact fraction [def, num, den] in lowest      *)
(* terms; def = FALSE stands for a field the payload does not carry. The   *)
(* counts of the model are small integers, for which the quotients and     *)
(* products calculateMetrics forms are compared with 10, -10 and 0 as      *)
(* their exact values are.                                                 *)
(***************************************************************************)
Abs(n) == IF n < 0 THEN -n ELSE n

RECURSIVE GCD(_, _)
GCD(a, b) == IF b = 0 THEN a ELSE GCD(b, a % b)

\* the number n / d; a denominator of 0 is an infinity (n # 0) or NaN (n = 0)
Num(n, d) ==
    LET g == GCD(Abs(n), Abs(d))
        sign == IF d < 0 THEN -1 ELSE 1
    IN  IF g = 0 THEN [def |-> TRUE, num |-> 0, den |-> 0]
        ELSE [def |-> TRUE, num |-> sign * (n \div g), den |-> Abs(d) \div g]

IntNum(n) == Num(n, 1)

Missing == [def |-> FALSE, num |-> 0, den |-> 1]

NumAdd(x, y) == Num(x.num * y.den + y.num * x.den, x.den * y.den)
NumSub(x, y) == Num(x.num * y.den - y.num * x.den, x.den * y.den)
NumMul(x, y) == Num(x.num * y.num, x.den * y.den)
NumDiv(x, y) == Num(x.num * y.den, x.den * y.num)
NumGt(x, y) == x.num * y.den > y.num * x.den
NumLt(x, y) == x.num * y.den < y.num * x.den
NumLe(x, y) == x.num * y.den <= y.num * x.den
MathAbs(x) == Num(Abs(x.num), x.den)
MathMax(x, y) == IF NumGt(y, x) THEN y ELSE x

\* x ?? y: only undefined and null give way
OrNum_Nullish(x, y) == IF ~x.def THEN y ELSE x

\* x || y for a numeric field: undefined, null and 0 are falsy
OrNum(x, y) == IF ~x.def \/ x.num = 0 THEN y ELSE x

\* array.slice(from): the elements from index from on (from < 0 counts from the end)
Slice(arr, from) ==
    LET start == IF from < 0 THEN MathMax(IntNum(Len(arr) + from), IntNum(0)).num ELSE from
    IN  SubSeq(arr, start + 1, Len(arr))

\* array.slice(0, to)
SliceTo(arr, to) == SubSeq(arr, 1, IF to > Len(arr) THEN Len(arr) ELSE to)

\* weeks.reduce((sum, w) => sum + (w.count || 0), 0): a week is its count
RECURSIVE SumCounts(_)
SumCounts(weeks) ==
    IF weeks = <<>> THEN IntNum(0)
    ELSE NumAdd(SumCounts(SubSeq(weeks, 1, Len(weeks) - 1)),
                OrNum(weeks[Len(weeks)], IntNum(0)))

\* typeData[key] || 0, typeData a sequence of [key, count] in insertion order
TypeCount(typeData, key) ==
    LET hits == {i \in 1..Len(typeData) : typeData[i].key = key}
    IN  IF hits = {} THEN IntNum(0) ELSE OrNum(typeData[SetMin(hits)].count, IntNum(0))

\* Object.keys(typeData).reduce((a, b) => (typeData[a] || 0) > (typeData[b] || 0) ? a : b, initial)
RECURSIVE ReduceKeys(_, _, _)
ReduceKeys(typeData, keys, a) ==
    IF keys = <<>> THEN a
    ELSE LET b == keys[1]
         IN  ReduceKeys(typeData, Tail(keys),
                 IF NumGt(TypeCount(typeData, a), TypeCount(typeData, b)) THEN a ELSE b)

TypeKeys(typeData) == [i \in 1..Len(typeData) |-> typeData[i].key]

MostCommonType(typeData) ==
    ReduceKeys(typeData, TypeKeys(typeData),
               IF typeData # <<>> THEN typeData[1].key ELSE "N/A")

\* the trend, were the thresholds 10 and -10 themselves classified up and down
Trend_InclusiveBounds(weeklyData) ==
    LET recentWeeks == Slice(weeklyData, -4)
        half == Len(recentWeeks) \div 2
        firstHalf == SliceTo(recentWeeks, half)
        secondHalf == Slice(recentWeeks, half)
        firstAvg == NumDiv(SumCounts(firstHalf), MathMax(IntNum(Len(firstHalf)), IntNum(1)))
        secondAvg == NumDiv(SumCounts(secondHalf), MathMax(IntNum(Len(secondHalf)), IntNum(1)))
        trendValue == NumMul(NumDiv(NumSub(secondAvg, firstAvg), firstAvg), IntNum(100))
    IN  IF Len(recentWeeks) >= 2 /\ NumGt(firstAvg, IntNum(0))
        THEN [trend |-> IF NumLe(IntNum(10), trendValue) THEN "up"
                        ELSE IF NumLe(trendValue, IntNum(-10)) THEN "down"
                        ELSE "stable",
              trendValue |-> trendValue]
        ELSE [trend |-> "stable", trendValue |-> IntNum(0)]

\* the trend, without the test firstAvg > 0
Trend_NoZeroGuard(weeklyData) ==
    LET recentWeeks == Slice(weeklyData, -4)
        half == Len(recentWeeks) \div 2
        firstHalf == SliceTo(recentWeeks, half)
        secondHalf == Slice(recentWeeks, half)
        firstAvg == NumDiv(SumCounts(firstHalf), MathMax(IntNum(Len(firstHalf)), IntNum(1)))
        secondAvg == NumDiv(SumCounts(secondHalf), MathMax(IntNum(Len(secondHalf)), IntNum(1)))
        trendValue == NumMul(NumDiv(NumSub(secondAvg, firstAvg), firstAvg), IntNum(100))
    IN  IF Len(recentWeeks) >= 2
        THEN [trend |-> IF NumGt(trendValue, IntNum(10)) THEN "up"
                        ELSE IF NumLt(trendValue, IntNum(-10)) THEN "down"
                        ELSE "stable",
              trendValue |-> trendValue]
        ELSE [trend |-> "stable", trendValue |-> IntNum(0)]

\* the trend of calculateMetrics: [trend, trendValue] before Math.abs
Trend(weeklyData) ==
    LET recentWeeks == Slice(weeklyData, -4)
        half == Len(recentWeeks) \div 2
        firstHalf == SliceTo(recentWeeks, half)
        secondHalf == Slice(recentWeeks, half)
        firstAvg == NumDiv(SumCounts(firstHalf), MathMax(IntNum(Len(firstHalf)), IntNum(1)))
        secondAvg == NumDiv(SumCounts(secondHalf), MathMax(IntNum(Len(secondHalf)), IntNum(1)))
        trendValue == NumMul(NumDiv(NumSub(secondAvg, firstAvg), firstAvg), IntNum(100))
    IN  IF Len(recentWeeks) >= 2 /\ NumGt(firstAvg, IntNum(0))
        THEN [trend |-> IF NumGt(trendValue, IntNum(10)) THEN "up"
                        ELSE IF NumLt(trendValue, IntNum(-10)) THEN "down"
                        ELSE "stable",
              trendValue |-> trendValue]
        ELSE [trend |-> "stable", trendValue |-> IntNum(0)]

NoteNoResolved == " (No resolved tickets in period)"

calculateMetrics(snapshot) ==
    LET weeklyData == IF snapshot.tickets_per_week.def
                      THEN snapshot.tickets_per_week.items ELSE <<>>
        totalTickets == OrNum(snapshot.total_tickets, SumCounts(weeklyData))
        typeData == IF snapshot.type_distribution.def
                    THEN snapshot.type_distribution.items ELSE <<>>
        weeklyAverage ==
            OrNum(snapshot.weekly_average,
                  IF NumGt(totalTickets, IntNum(0))
                  THEN NumDiv(totalTickets, MathMax(IntNum(Len(weeklyData)), IntNum(1)))
                  ELSE IntNum(0))
        t == Trend(weeklyData)
        avgResolutionTime == OrNum(snapshot.avg_resolution_time, IntNum(0))
    IN  [totalTickets |-> totalTickets,
         avgResolutionTime |-> avgResolutionTime,
         mostCommonType |-> MostCommonType(typeData),
         trend |-> t.trend,
         trendValue |-> MathAbs(t.trendValue),
         weeklyAverage |-> weeklyAverage,
         noteForAverage |-> IF avgResolutionTime = IntNum(0) THEN NoteNoResolved ELSE ""]

\* InsightsPanel, "Efficacité de Résolution": the status of the insight
ResolutionStatus(m) ==
    IF NumLe(m.avgResolutionTime, IntNum(3)) THEN "excellent"
    ELSE IF NumLe(m.avgResolutionTime, IntNum(7)) THEN "bon"
    ELSE "à améliorer"

\* the trends view, "Efficacité": the text on the resolution time
ResolutionText(m) ==
    IF NumLe(m.avgResolutionTime, IntNum(3)) THEN "Temps de résolution excellent"
    ELSE IF NumLe(m.avgResolutionTime, IntNum(7)) THEN "Temps de résolution bon"
    ELSE "Considérer l'optimisation du processus de résolution"

\* what a render shows of the resolution time
Rendered(m) ==
    [status |-> ResolutionStatus(m),
     note |-> m.noteForAverage,
     text |-> ResolutionText(m)]

\* useState: the snapshot before the first response
InitialAnalytics ==
    [tickets_per_week |-> [def |-> TRUE, items |-> <<>>],
     type_distribution |-> [def |-> TRUE, items |-> <<>>],
     avg_resolution_time |-> IntNum(0),
     total_tickets |-> IntNum(0),
     weekly_average |-> IntNum(0)]

\* inputs: the snapshots the analytics endpoint may answer. A snapshot varies
\* the weekly counts, or the totals, or the type distribution, or the
\* resolution time, over a snapshot that carries nothing else.
CountPool == {Missing, IntNum(0), IntNum(3), IntNum(4), IntNum(5), IntNum(6), IntNum(12), IntNum(13)}
OldCountPool == {IntNum(0), IntNum(20)}

RECURSIVE SeqsUpTo(_, _)
SeqsUpTo(S, n) ==
    IF n = 0 THEN {<<>>}
    ELSE LET shorter == SeqsUpTo(S, n - 1)
         IN  shorter \cup {Append(q, x) : q \in shorter, x \in S}

SeqsOf(S, n) == {q \in SeqsUpTo(S, n) : Len(q) = n}

\* weekly counts: up to four recent weeks, and four recent weeks behind up to
\* MaxOldWeeks older ones
WeeklyInputs ==
    SeqsUpTo(CountPool, 3)
      \cup {old \o recent : old \in SeqsUpTo(OldCountPool, MaxOldWeeks),
                            recent \in SeqsOf(CountPool, 4)}

EmptySnapshot ==
    [tickets_per_week |-> [def |-> FALSE, items |-> <<>>],
     type_distribution |-> [def |-> FALSE, items |-> <<>>],
     avg_resolution_time |-> Missing,
     total_tickets |-> Missing,
     weekly_average |-> Missing]

TrendSnapshots ==
    {[EmptySnapshot EXCEPT !.tickets_per_week = [def |-> TRUE, items |-> w]] :
        w \in WeeklyInputs}

TotalsSnapshots ==
    {[EmptySnapshot EXCEPT !.tickets_per_week = w, !.total_tickets = t,
                           !.weekly_average = a] :
        w \in {[def |-> FALSE, items |-> <<>>]}
                \cup {[def |-> TRUE, items |-> q] :
                        q \in SeqsUpTo({Missing, IntNum(0), IntNum(3), IntNum(4)}, 3)},
        t \in {Missing, IntNum(0), IntNum(7)},
        a \in {Missing, IntNum(0), Num(5, 2)}}

TypeKeyPool == {"Bug", "Task", "Story"}
TypeCountPool == {Missing, IntNum(0), IntNum(1), IntNum(3)}

TypeDistributions ==
    UNION {{[i \in 1..Len(keys) |-> [key |-> keys[i], count |-> counts[i]]] :
              counts \in SeqsOf(TypeCountPool, Len(keys))} :
           keys \in DistinctSeqs(TypeKeyPool, Cardinality(TypeKeyPool))}

TypeSnapshots ==
    {[EmptySnapshot EXCEPT !.type_distribution = [def |-> TRUE, items |-> d]] :
        d \in TypeDistributions}

ResolutionSnapshots ==
    {[EmptySnapshot EXCEPT !.avg_resolution_time = r, !.total_tickets = t] :
        r \in {Missing, IntNum(0), IntNum(2), IntNum(3), Num(7, 2), IntNum(7), IntNum(9)},
        t \in {Missing, IntNum(0), IntNum(7)}}

AnalyticsInputs ==
    TrendSnapshots \cup TotalsSnapshots \cup TypeSnapshots \cup ResolutionSnapshots

NoAnalyticsData == [pending |-> FALSE, snapshot |-> EmptySnapshot]

\* the dashboard with no request in flight
AnalyticsIdle ==
    /\ analytics = InitialAnalytics
    /\ analyticsData = NoAnalyticsData
    /\ analyticsLoading = FALSE
    /\ analyticsError = ""
    /\ metrics = calculateMetrics(InitialAnalytics)
    /\ insight = Rendered(calculateMetrics(InitialAnalytics))
    /\ activeView = "overview"


\* the dashboard after construction: the effect has called fetchAnalytics
AnalyticsInit ==
    /\ analytics = InitialAnalytics
    /\ \E snapshot \in AnalyticsInputs :
          analyticsData = [pending |-> TRUE, snapshot |-> snapshot]
    /\ analyticsLoading = TRUE
    /\ analyticsError = ""
    /\ metrics = calculateMetrics(InitialAnalytics)
    /\ insight = Rendered(calculateMetrics(InitialAnalytics))
    /\ activeView = "overview"

\* fetchAnalytics: the response is ok, setAnalytics(data), finally; the
\* component renders with the metrics of the new snapshot
AnalyticsLoads ==
    /\ analyticsData.pending
    /\ analytics' = analyticsData.snapshot
    /\ analyticsData' = [analyticsData EXCEPT !.pending = FALSE]
    /\ analyticsLoading' = FALSE
    /\ metrics' = calculateMetrics(analyticsData.snapshot)
    /\ insight' = Rendered(calculateMetrics(analyticsData.snapshot))
    /\ UNCHANGED <<analyticsError, activeView>>
    /\ UNCHANGED <<parseVars, facetVars, modalVars, refreshVars, mutationVars, clientVars>>

\* fetchAnalytics: the request fails or is not ok, setError, finally
AnalyticsFails ==
    /\ analyticsData.pending
    /\ analyticsData' = [analyticsData EXCEPT !.pending = FALSE]
    /\ analyticsError' = "HTTP 500"
    /\ analyticsLoading' = FALSE
    /\ UNCHANGED <<analytics, metrics, insight, activeView>>
    /\ UNCHANGED <<parseVars, facetVars, modalVars, refreshVars, mutationVars, clientVars>>

\* the refresh button, the retry button and the time filter: fetchAnalytics
AnalyticsRefetch ==
    /\ ~analyticsData.pending
    /\ analyticsData' = [analyticsData EXCEPT !.pending = TRUE]
    /\ analyticsLoading' = TRUE
    /\ UNCHANGED <<analytics, analyticsError, metrics, insight, activeView>>
    /\ UNCHANGED <<parseVars, facetVars, modalVars, refreshVars, mutationVars, clientVars>>

\* the view buttons of the dashboard
ShowView ==
    /\ ~analyticsLoading
    /\ analyticsError = ""
    /\ \E view \in {"overview", "trends"} :
          /\ view # activeView
          /\ activeView' = view
    /\ UNCHANGED <<analytics, analyticsData, analyticsLoading, analyticsError,
                   metrics, insight>>
    /\ UNCHANGED <<parseVars, facetVars, modalVars, refreshVars, mutationVars, clientVars>>

AnalyticsNext ==
    \/ AnalyticsLoads
    \/ AnalyticsFails
    \/ AnalyticsRefetch
    \/ ShowView

(***************************************************************************)
(* JiraManagerPro: concurrent loadTickets calls                            *)
(***************************************************************************)
\* the board the backend answers to the call numbered id
RefreshBoard(id) ==
    <<Column(St_Done,
             <<Str(Encode3(<<"K", "-", Digits[id + 1]>>, <<"s">>, <<"A">>, <<"T">>, High))>>)>>

NoneResolved == [id |-> 0, ok |-> FALSE]

\* no loadTickets call was issued
RefreshIdle ==
    /\ boardCalls = {}
    /\ issued = 0
    /\ lastResolved = NoneResolved

\* after construction: the effect has called loadTickets once
RefreshInit ==
    /\ loading = TRUE
    /\ data = NoData
    /\ FacetRest
    /\ boardCalls = {1}
    /\ issued = 1
    /\ lastResolved = NoneResolved

\* loadTickets up to the await, n times over: setLoading(true), setError('')
IssueCalls(n) ==
    /\ boardCalls' = boardCalls \cup ((issued + 1)..(issued + n))
    /\ issued' = issued + n
    /\ loading' = TRUE
    /\ error' = ""
    /\ UNCHANGED <<data, tickets, statuses, uniqueAssignees, uniqueTypes,
                   uniquePriorities, lastResolved>>
    /\ UNCHANGED <<parseVars, modalVars, analyticsVars, mutationVars, clientVars>>

\* the refresh button, disabled while loading: its loadTickets (ConnRefresh
\* has the checkHealth of the same click)
RefreshClick == ~loading /\ issued + 1 <= MaxBoardCalls /\ IssueCalls(1)

\* handleFilterChange: loadTickets(newFilters), and the effect that runs again
\* with the loadTickets of the new filters
FilterChange == issued + 2 <= MaxBoardCalls /\ IssueCalls(2)

\* the loadTickets a mutation handler awaits after its request succeeded
ReloadAfterMutation == issued + 1 <= MaxBoardCalls /\ IssueCalls(1)

\* a call resolves, were a response older than the one on display dropped
BoardCallResolves_Sequenced ==
    \E id \in boardCalls :
        /\ boardCalls' = boardCalls \ {id}
        /\ IF id > lastResolved.id
           THEN tickets' = RefreshBoard(id) /\ Derived(RefreshBoard(id))
           ELSE UNCHANGED <<tickets, statuses, uniqueAssignees, uniqueTypes, uniquePriorities>>
        /\ loading' = FALSE
        /\ lastResolved' = [id |-> id, ok |-> TRUE]
        /\ UNCHANGED <<error, data, issued>>
        /\ UNCHANGED <<parseVars, modalVars, analyticsVars, mutationVars, clientVars>>

\* a call resolves: setTickets(data), finally
BoardCallResolves ==
    \E id \in boardCalls :
        /\ boardCalls' = boardCalls \ {id}
        /\ tickets' = RefreshBoard(id)
        /\ Derived(RefreshBoard(id))
        /\ loading' = FALSE
        /\ lastResolved' = [id |-> id, ok |-> TRUE]
        /\ UNCHANGED <<error, data, issued>>
        /\ UNCHANGED <<parseVars, modalVars, analyticsVars, mutationVars, clientVars>>

\* a call fails: setError, setTickets({}), finally
BoardCallFails ==
    \E id \in boardCalls :
        /\ boardCalls' = boardCalls \ {id}
        /\ error' = "Impossible de charger les tickets"
        /\ tickets' = <<>>
        /\ Derived(<<>>)
        /\ loading' = FALSE
        /\ lastResolved' = [id |-> id, ok |-> FALSE]
        /\ UNCHANGED <<data, issued>>
        /\ UNCHANGED <<parseVars, modalVars, analyticsVars, mutationVars, clientVars>>

\* the button of the error message: setError('')
DismissError ==
    /\ error # ""
    /\ error' = ""
    /\ UNCHANGED <<loading, data, tickets, statuses, uniqueAssignees, uniqueTypes,
                   uniquePriorities>>
    /\ UNCHANGED <<parseVars, modalVars, analyticsVars, refreshVars, mutationVars, clientVars>>

RefreshNext ==
    \/ RefreshClick
    \/ FilterChange
    \/ ReloadAfterMutation
    \/ BoardCallResolves
    \/ BoardCallFails
    \/ DismissError

(***************************************************************************)
(* JiraManagerPro: connection status, forms, filters and requests after    *)
(* construction                                                            *)
(***************************************************************************)
Task == <<"T", "a", "s", "k">>
Bug == <<"B", "u", "g">>
All == <<"a", "l", "l">>

\* disabled={connectionStatus !== 'connected'} of the 'Nouveau ticket' button;
\* the button of the empty state is rendered on the same condition
CreateButtonDisabled == connectionStatus # "connected"

\* {connectionStatus !== 'connected' && (...)}: the warning banner
ConnectionWarning == connectionStatus # "connected"

\* the health check answered 'connected' and none is in flight
ConnIdle ==
    /\ connectionStatus = "connected"
    /\ healthCalls = 0

\* useState of CreateTicketModal
DefaultCreateData ==
    [summary |-> <<>>, description |-> <<>>, issueType |-> Task, priority |-> Medium,
     assignee |-> <<>>]

NoCreateErrors == [summary |-> FALSE, issueType |-> FALSE]

CreateIdle ==
    /\ createData = DefaultCreateData
    /\ createErrors = NoCreateErrors

\* useState of EditTicketModal
BlankForm ==
    [summary |-> <<>>, description |-> <<>>, priority |-> <<>>, issueType |-> <<>>,
     assignee |-> <<>>, status |-> <<>>, created |-> <<>>, updated |-> <<>>]

\* useState({}) of originalData: every field undefined
NoOriginal == [loaded |-> FALSE, values |-> BlankForm]

EditableFields == {"summary", "description", "priority", "issueType", "assignee"}

Absent == [def |-> FALSE, text |-> <<>>]

Given(text) == [def |-> TRUE, text |-> text]

NoUpdate == [sent |-> FALSE, key |-> <<>>, body |-> [f \in EditableFields |-> Absent]]

EditIdle ==
    /\ formData = BlankForm
    /\ originalData = NoOriginal
    /\ detailsLoading = FALSE
    /\ editErrors = ""
    /\ detailFetches = EmptyBag
    /\ updateReq = NoUpdate

\* useState of filters
DefaultFilters ==
    [search |-> <<>>, assignee |-> All, type |-> All, status |-> All, priority |-> All]

FilterIdle ==
    /\ filters = DefaultFilters
    /\ boardRequests = <<>>

NoHttp ==
    [endpoint |-> "none", status |-> "", statusText |-> "", message |-> Absent,
     error |-> Absent]

NoFailure == [pc |-> "idle", message |-> <<>>]

RequestIdle ==
    /\ httpResponse = NoHttp
    /\ failure = NoFailure

ClientIdle == ConnIdle /\ CreateIdle /\ EditIdle /\ FilterIdle /\ RequestIdle

(***************************************************************************)
(* JiraManagerPro: the four modals and their mutation handlers             *)
(***************************************************************************)
MutationKinds == {"create", "edit", "transition", "confirm"}

\* modals[kind]
ModalOpen(kind) ==
    CASE kind = "create" -> modalCreate
      [] kind = "edit" -> modalEdit
      [] kind = "transition" -> modalTransition
      [] kind = "confirm" -> modalConfirm

\* setModals(prev => ({ ...prev, [kind]: value }))
SetModal(kind, value) ==
    /\ modalCreate' = IF kind = "create" THEN value ELSE modalCreate
    /\ modalEdit' = IF kind = "edit" THEN value ELSE modalEdit
    /\ modalTransition' = IF kind = "transition" THEN value ELSE modalTransition
    /\ modalConfirm' = IF kind = "confirm" THEN value ELSE modalConfirm

\* the submit or confirm control of a modal, were it never disabled
ControlDisabled_Never(kind) == FALSE

\* disabled={loading} of the submit or confirm control of a modal, loading
\* being actionLoading; the forms of edit and transition add conditions of
\* their own, which only disable more
ControlDisabled(kind) == actionLoading

\* the error message of a handler's catch block
MutationError(kind) ==
    CASE kind = "create" -> "Erreur lors de la création du ticket"
      [] kind = "edit" -> "Erreur lors de la modification du ticket"
      [] kind = "transition" -> "Erreur lors du changement de statut"
      [] kind = "confirm" -> "Erreur lors de la suppression du ticket"

Handler(kind, pc) == SetToBag({[kind |-> kind, pc |-> pc]})

\* the board is loaded and no modal is open
MutationInit ==
    /\ loading = FALSE
    /\ data = NoData
    /\ error = ""
    /\ tickets = RefreshBoard(1)
    /\ statuses = getOrderedStatuses(ObjectKeys(RefreshBoard(1)))
    /\ uniqueAssignees = UniqueAssigneesOf(RefreshBoard(1))
    /\ uniqueTypes = UniqueTypesOf(RefreshBoard(1))
    /\ uniquePriorities = UniquePrioritiesOf(RefreshBoard(1))
    /\ modalCreate = FALSE
    /\ modalEdit = FALSE
    /\ modalConfirm = FALSE
    /\ handlers = EmptyBag

\* the form state of the transition modal and the bookkeeping of its own model
ModalRest ==
    <<selectedTransition, comment, availableTransitions, loadingTransitions,
      commentSection, fetches, offer, lastResponse, txPc, txReq>>

\* openModal(kind, key): the header button for create, a card button for the
\* others (cards are rendered when the board is not loading and has tickets);
\* the overlay of an open modal covers the header and the cards
OpenModal ==
    \E kind \in MutationKinds :
        /\ \A open \in MutationKinds : ~ModalOpen(open)
        /\ kind = "create" => ~CreateButtonDisabled
        /\ kind # "create" => (~loading /\ tickets # <<>>)
        /\ SetModal(kind, TRUE)
        /\ selectedTicket' = IF kind \in {"edit", "transition"} THEN <<Key1>> ELSE <<>>
        /\ UNCHANGED <<actionLoading, handlers>>
        /\ UNCHANGED <<ModalRest, facetVars, parseVars, analyticsVars, refreshVars, clientVars>>

\* closeModal(kind): the header button of the modal, never disabled
CloseModal ==
    \E kind \in MutationKinds :
        /\ ModalOpen(kind)
        /\ SetModal(kind, FALSE)
        /\ selectedTicket' = <<>>
        /\ UNCHANGED <<actionLoading, handlers>>
        /\ UNCHANGED <<ModalRest, facetVars, parseVars, analyticsVars, refreshVars, clientVars>>

\* the submit or confirm control of an open modal: the handler runs up to its
\* request, setActionLoading(true)
SubmitMutation ==
    \E kind \in MutationKinds :
        /\ ModalOpen(kind)
        /\ ~ControlDisabled(kind)
        /\ BagCardinality(handlers) < MaxMutations
        /\ actionLoading' = TRUE
        /\ handlers' = handlers (+) Handler(kind, "sent")
        /\ UNCHANGED <<selectedTicket, modalTransition, modalCreate, modalEdit, modalConfirm>>
        /\ UNCHANGED <<ModalRest, facetVars, parseVars, analyticsVars, refreshVars, clientVars>>

\* the request throws (setError) or answers without success: finally
MutationFails ==
    \E h \in BagToSet(handlers) :
        /\ h.pc = "sent"
        /\ handlers' = handlers (-) SetToBag({h})
        /\ actionLoading' = FALSE
        /\ \/ error' = MutationError(h.kind)
           \/ UNCHANGED error
        /\ UNCHANGED <<loading, data, tickets, statuses, uniqueAssignees, uniqueTypes,
                       uniquePriorities>>
        /\ UNCHANGED <<selectedTicket, modalTransition, modalCreate, modalEdit, modalConfirm>>
        /\ UNCHANGED <<ModalRest, parseVars, analyticsVars, refreshVars, clientVars>>

\* result.success: the handler calls loadTickets and awaits it
MutationSucceeds ==
    \E h \in BagToSet(handlers) :
        /\ h.pc = "sent"
        /\ ~data.pending
        /\ handlers' = (handlers (-) SetToBag({h})) (+) Handler(h.kind, "reloading")
        /\ loading' = TRUE
        /\ error' = ""
        /\ \E board \in ReloadBoards : data' = [pending |-> TRUE, board |-> board]
        /\ UNCHANGED <<tickets, statuses, uniqueAssignees, uniqueTypes, uniquePriorities>>
        /\ UNCHANGED <<selectedTicket, modalTransition, actionLoading, modalCreate,
                       modalEdit, modalConfirm>>
        /\ UNCHANGED <<ModalRest, parseVars, analyticsVars, refreshVars, clientVars>>

\* the awaited loadTickets resolves; the handler finishes (finally), and the
\* modal of the mutation is closed by its handleSubmit or by handleDeleteTicket
MutationDone ==
    \E h \in BagToSet(handlers) :
        /\ h.pc = "reloading"
        /\ SetTickets \/ LoadTicketsFails
        /\ handlers' = handlers (-) SetToBag({h})
        /\ actionLoading' = FALSE
        /\ SetModal(h.kind, FALSE)
        /\ selectedTicket' = <<>>
        /\ UNCHANGED <<ModalRest, parseVars, analyticsVars, refreshVars, clientVars>>

MutationNext ==
    \/ OpenModal
    \/ CloseModal
    \/ SubmitMutation
    \/ MutationFails
    \/ MutationSucceeds
    \/ MutationDone

\* no modal is open and no mutation runs
MutationIdle ==
    /\ modalCreate = FALSE
    /\ modalEdit = FALSE
    /\ modalConfirm = FALSE
    /\ handlers = EmptyBag

(***************************************************************************)
(* findTicketStatus: the current status handed to the transition modal     *)
(***************************************************************************)
\* String.prototype.startsWith
StartsWith(s, prefix) ==
    /\ Len(prefix) <= Len(s)
    /\ SubSeq(s, 1, Len(prefix)) = prefix

\* ticketList.some(ticket => ticket.startsWith(ticketKey))
SomeStartsWith(list, ticketKey) ==
    \E i \in 1..Len(list) : StartsWith(list[i].text, ticketKey)

\* findTicketStatus: the first entry of Object.entries(tickets) one of whose
\* tickets starts with the key, <<>> for null
RECURSIVE findTicketStatus(_, _)
findTicketStatus(board, ticketKey) ==
    IF board = <<>> THEN <<>>
    ELSE IF SomeStartsWith(Head(board).list, ticketKey)
         THEN <<Head(board).status>>
         ELSE findTicketStatus(Tail(board), ticketKey)

\* currentStatus={selectedTicket ? findTicketStatus(selectedTicket) : null}
currentStatus ==
    IF Truthy(selectedTicket) THEN findTicketStatus(tickets, selectedTicket[1]) ELSE <<>>

\* keys of one project, some a proper prefix of another
LookupKeyList ==
    <<<<"P", "-", "1">>, <<"P", "-", "1", "0">>, <<"P", "-", "2">>, <<"P", "-", "2", "0">>>>

LookupKeys == {LookupKeyList[i] : i \in 1..MaxLookupKeys}

LookupTicket(key) == Str(Encode3(key, <<"s">>, <<"A">>, <<"T">>, High))

\* the tickets of the keys that place puts in the column numbered col, in
\* the order of LookupKeyList
RECURSIVE LookupColumn(_, _, _)
LookupColumn(place, col, i) ==
    IF i > MaxLookupKeys THEN <<>>
    ELSE (IF place[LookupKeyList[i]] = col THEN <<LookupTicket(LookupKeyList[i])>> ELSE <<>>)
         \o LookupColumn(place, col, i + 1)

\* the boards of two columns, in either order, with every key in one column
\* or in none (0)
LookupBoards ==
    UNION {{<<Column(St_Todo, LookupColumn(place, 1, 1)),
              Column(St_Done, LookupColumn(place, 2, 1))>>,
            <<Column(St_Done, LookupColumn(place, 2, 1)),
              Column(St_Todo, LookupColumn(place, 1, 1))>>} :
           place \in [LookupKeys -> 0..2]}

\* the board is loaded
BoardShown(board) ==
    /\ loading = FALSE
    /\ data = NoData
    /\ error = ""
    /\ tickets = board
    /\ statuses = getOrderedStatuses(ObjectKeys(board))
    /\ uniqueAssignees = UniqueAssigneesOf(board)
    /\ uniqueTypes = UniqueTypesOf(board)
    /\ uniquePriorities = UniquePrioritiesOf(board)

LookupInit == \E board \in LookupBoards : BoardShown(board)

\* the keys of the cards rendered for a board
RECURSIVE CardKeys(_)
CardKeys(board) ==
    IF board = <<>> THEN {}
    ELSE {parseTicketInfo(Head(board).list[i]).key : i \in 1..Len(Head(board).list)}
         \cup CardKeys(Tail(board))

\* onTransition(ticketInfo.key) of a card: openModal('transition', key), the
\* effect that calls loadTransitions, and the render of currentStatus
OnTransition ==
    /\ ~modalTransition
    /\ BagCardinality(fetches) < MaxFetches
    /\ \E key \in CardKeys(tickets) :
          /\ selectedTicket' = <<key>>
          /\ fetches' = fetches (+) SetToBag({key})
    /\ loadingTransitions' = TRUE
    /\ modalTransition' = TRUE
    /\ lastResponse' = NoResponse
    /\ UNCHANGED <<actionLoading, selectedTransition, comment, availableTransitions,
                   commentSection, txPc, txReq>>
    /\ UNCHANGED <<facetVars, offer, parseVars, otherVars>>

\* the header button of the transition modal
LookupClose ==
    /\ CloseTransitionModal
    /\ currentStatus' = <<>>

\* the transition list of the modal arrives
LookupResolve ==
    /\ ResolveTransitions
    /\ UNCHANGED tickets

LookupNext ==
    \/ OnTransition
    \/ LookupClose
    \/ LookupResolve

(***************************************************************************)
(* JiraManagerPro: the health check and the creation of a ticket           *)
(***************************************************************************)
NoModalOpen == \A kind \in MutationKinds : ~ModalOpen(kind)

CreateSummaries == {<<>>, <<" ">>, <<"s">>}
CreateTypes == {<<>>, Task, Bug}

\* after construction: the effect has called checkHealth and loadTickets
ConnInit ==
    /\ connectionStatus = "unknown"
    /\ healthCalls = 1
    /\ loading = TRUE
    /\ \E board \in {<<>>, RefreshBoard(1)} : data = [pending |-> TRUE, board |-> board]
    /\ FacetRest
    /\ CreateIdle

\* checkHealth, the request answered or failed
HealthResolves ==
    /\ healthCalls > 0
    /\ healthCalls' = healthCalls - 1
    /\ \E status \in {"connected", "disconnected", "error"} : connectionStatus' = status
    /\ UNCHANGED <<createVars, editVars, filterVars, requestVars>>
    /\ UNCHANGED <<parseVars, facetVars, modalVars, analyticsVars, refreshVars, mutationVars>>

\* the refresh button: checkHealth(); loadTickets()
ConnRefresh ==
    /\ ~loading
    /\ ~data.pending
    /\ NoModalOpen
    /\ healthCalls < MaxHealthCalls
    /\ healthCalls' = healthCalls + 1
    /\ loading' = TRUE
    /\ error' = ""
    /\ \E board \in {<<>>, RefreshBoard(1)} : data' = [pending |-> TRUE, board |-> board]
    /\ UNCHANGED <<tickets, statuses, uniqueAssignees, uniqueTypes, uniquePriorities>>
    /\ UNCHANGED <<connectionStatus, createVars, editVars, filterVars, requestVars>>
    /\ UNCHANGED <<parseVars, modalVars, analyticsVars, refreshVars, mutationVars>>

\* loadTickets of the effect or of the refresh button, answered or failed
ConnBoardResolves ==
    /\ \A h \in BagToSet(handlers) : h.pc # "reloading"
    /\ SetTickets \/ LoadTicketsFails
    /\ UNCHANGED <<parseVars, modalVars, analyticsVars, refreshVars, mutationVars, clientVars>>

\* the 'Nouveau ticket' button or the button of the empty state:
\* openModal('create')
OpenCreate ==
    /\ ~CreateButtonDisabled
    /\ NoModalOpen
    /\ modalCreate' = TRUE
    /\ selectedTicket' = <<>>
    /\ UNCHANGED <<modalTransition, modalEdit, modalConfirm, actionLoading, handlers>>
    /\ UNCHANGED <<ModalRest, facetVars, parseVars, analyticsVars, refreshVars, clientVars>>

\* the header button of the create modal: closeModal('create')
CloseCreate ==
    /\ modalCreate
    /\ modalCreate' = FALSE
    /\ selectedTicket' = <<>>
    /\ UNCHANGED <<modalTransition, modalEdit, modalConfirm, actionLoading, handlers>>
    /\ UNCHANGED <<ModalRest, facetVars, parseVars, analyticsVars, refreshVars, clientVars>>

\* handleChange(field, value) of the create form
TypeCreate ==
    /\ modalCreate
    /\ \/ \E value \in CreateSummaries :
             /\ value # createData.summary
             /\ createData' = [createData EXCEPT !.summary = value]
             /\ createErrors' = [createErrors EXCEPT !.summary = FALSE]
       \/ \E value \in CreateTypes :
             /\ value # createData.issueType
             /\ createData' = [createData EXCEPT !.issueType = value]
             /\ createErrors' = [createErrors EXCEPT !.issueType = FALSE]
    /\ UNCHANGED <<connVars, editVars, filterVars, requestVars>>
    /\ UNCHANGED <<parseVars, facetVars, modalVars, analyticsVars, refreshVars, mutationVars>>

\* const newErrors of CreateTicketModal.handleSubmit
CreateValidation(form) ==
    [summary |-> Trim(form.summary) = <<>>, issueType |-> Trim(form.issueType) = <<>>]

\* CreateTicketModal.handleSubmit up to the request of handleCreateTicket
SubmitCreate ==
    /\ modalCreate
    /\ ~ControlDisabled("create")
    /\ BagCardinality(handlers) < MaxMutations
    /\ IF CreateValidation(createData) # NoCreateErrors
       THEN /\ createErrors' = CreateValidation(createData)
            /\ UNCHANGED <<actionLoading, handlers>>
       ELSE /\ actionLoading' = TRUE
            /\ handlers' = handlers (+) Handler("create", "sent")
            /\ UNCHANGED createErrors
    /\ UNCHANGED <<selectedTicket, modalTransition, modalCreate, modalEdit, modalConfirm>>
    /\ UNCHANGED <<createData, connVars, editVars, filterVars, requestVars>>
    /\ UNCHANGED <<ModalRest, facetVars, parseVars, analyticsVars, refreshVars>>

\* handleCreateTicket: the request throws or answers without success
CreateFails ==
    /\ Handler("create", "sent") \sqsubseteq handlers
    /\ handlers' = handlers (-) Handler("create", "sent")
    /\ actionLoading' = FALSE
    /\ \/ error' = MutationError("create")
       \/ UNCHANGED error
    /\ UNCHANGED <<loading, data, tickets, statuses, uniqueAssignees, uniqueTypes,
                   uniquePriorities>>
    /\ UNCHANGED <<selectedTicket, modalTransition, modalCreate, modalEdit, modalConfirm>>
    /\ UNCHANGED <<ModalRest, parseVars, analyticsVars, refreshVars, clientVars>>

\* handleCreateTicket: result.success, loadTickets is called and awaited
CreateSucceeds ==
    /\ Handler("create", "sent") \sqsubseteq handlers
    /\ ~data.pending
    /\ handlers' = (handlers (-) Handler("create", "sent")) (+) Handler("create", "reloading")
    /\ loading' = TRUE
    /\ error' = ""
    /\ \E board \in ReloadBoards : data' = [pending |-> TRUE, board |-> board]
    /\ UNCHANGED <<tickets, statuses, uniqueAssignees, uniqueTypes, uniquePriorities>>
    /\ UNCHANGED <<selectedTicket, modalTransition, actionLoading, modalCreate,
                   modalEdit, modalConfirm>>
    /\ UNCHANGED <<ModalRest, parseVars, analyticsVars, refreshVars, clientVars>>

\* the awaited loadTickets resolves, handleCreateTicket returns true, and
\* handleSubmit resets the form and calls onClose
CreateDone ==
    /\ Handler("create", "reloading") \sqsubseteq handlers
    /\ SetTickets \/ LoadTicketsFails
    /\ handlers' = handlers (-) Handler("create", "reloading")
    /\ actionLoading' = FALSE
    /\ createData' = DefaultCreateData
    /\ createErrors' = NoCreateErrors
    /\ modalCreate' = FALSE
    /\ selectedTicket' = <<>>
    /\ UNCHANGED <<modalTransition, modalEdit, modalConfirm>>
    /\ UNCHANGED <<connVars, editVars, filterVars, requestVars>>
    /\ UNCHANGED <<ModalRest, parseVars, analyticsVars, refreshVars>>

CreateNext ==
    \/ HealthResolves
    \/ ConnRefresh
    \/ ConnBoardResolves
    \/ OpenCreate
    \/ CloseCreate
    \/ TypeCreate
    \/ SubmitCreate
    \/ CreateFails
    \/ CreateSucceeds
    \/ CreateDone

(***************************************************************************)
(* EditTicketModal and handleEditTicket                                    *)
(***************************************************************************)
\* the tickets the backend holds, as getTicketDetails answers them
TicketDetails(key) ==
    IF key = Key1
    THEN [summary |-> <<"s">>, description |-> <<"d">>, priority |-> High,
          issueType |-> Task, assignee |-> <<"A">>, status |-> St_Done,
          created |-> <<"c">>, updated |-> <<"u">>]
    ELSE [summary |-> <<"t">>, description |-> <<>>, priority |-> <<>>,
          issueType |-> Bug, assignee |-> Unassigned, status |-> St_Todo,
          created |-> <<"c">>, updated |-> <<>>]

\* getAssigneeName of a string
getAssigneeName(assigneeData) ==
    IF assigneeData = <<>> THEN <<>>
    ELSE IF assigneeData = Unassigned THEN <<>> ELSE assigneeData

\* const ticketData of loadTicketDetails, for a ticket of string fields
TicketData(details) == [details EXCEPT !.assignee = getAssigneeName(details.assignee)]

\* const hasChanges of EditTicketModal.handleSubmit: a field of the form is
\* never equal to a field originalData does not have
HasChanges(form, original) ==
    \E f \in EditableFields : ~original.loaded \/ form[f] # original.values[f]

\* the payload of updateTicket, were no field trimmed
updateTicket_NoTrim(form) ==
    [f \in EditableFields |-> IF form[f] # <<>> THEN Given(form[f]) ELSE Absent]

\* const payload of apiService.updateTicket
updateTicket(form) ==
    [f \in EditableFields |->
        IF f \in {"summary", "description"}
        THEN IF form[f] # <<>> /\ Trim(form[f]) # <<>> THEN Given(Trim(form[f])) ELSE Absent
        ELSE IF form[f] # <<>> THEN Given(form[f]) ELSE Absent]

\* what the user types in the text fields of the edit form; the fields of the
\* select elements take their values, empty ones included, from the tickets
TextFields == {"summary", "description"}

FieldPool(f) ==
    IF f = "summary" THEN {<<" ">>, <<" ", "n">>} ELSE {<<"e", " ">>}

\* the board shows the cards of both tickets
EditBoard ==
    <<Column(St_Done, <<Str(Encode3(Key1, <<"s">>, <<"A">>, <<"T">>, High))>>),
      Column(St_Todo, <<Str(Encode3(Key2, <<"t">>, Unassigned, <<"B">>, Medium))>>)>>

EditInit ==
    /\ BoardShown(EditBoard)
    /\ modalCreate = FALSE
    /\ modalEdit = FALSE
    /\ modalConfirm = FALSE
    /\ handlers = EmptyBag
    /\ EditIdle

\* the effect of EditTicketModal when the modal is closed or has no key
ResetEditForm ==
    /\ formData' = BlankForm
    /\ editErrors' = ""

\* onEdit(key) of a card: openModal('edit', key), and the effect that calls
\* loadTicketDetails
OpenEdit ==
    /\ NoModalOpen
    /\ ~loading
    /\ BagCardinality(detailFetches) < MaxDetailFetches
    /\ \E key \in CardKeys(tickets) :
          /\ selectedTicket' = <<key>>
          /\ detailFetches' = detailFetches (+) SetToBag({key})
    /\ modalEdit' = TRUE
    /\ detailsLoading' = TRUE
    /\ UNCHANGED <<formData, originalData, editErrors, updateReq>>
    /\ UNCHANGED <<modalTransition, modalCreate, modalConfirm, actionLoading, handlers>>
    /\ UNCHANGED <<connVars, createVars, filterVars, requestVars>>
    /\ UNCHANGED <<ModalRest, facetVars, parseVars, analyticsVars, refreshVars>>

\* the header button of the edit modal: closeModal('edit'), and the effect
CloseEdit ==
    /\ modalEdit
    /\ modalEdit' = FALSE
    /\ selectedTicket' = <<>>
    /\ ResetEditForm
    /\ UNCHANGED <<originalData, detailsLoading, detailFetches, updateReq>>
    /\ UNCHANGED <<modalTransition, modalCreate, modalConfirm, actionLoading, handlers>>
    /\ UNCHANGED <<connVars, createVars, filterVars, requestVars>>
    /\ UNCHANGED <<ModalRest, facetVars, parseVars, analyticsVars, refreshVars>>

\* loadTicketDetails: the response arrives, with the ticket or without success
DetailsResolve ==
    \E key \in BagToSet(detailFetches) :
        /\ detailFetches' = detailFetches (-) SetToBag({key})
        /\ \/ /\ formData' = TicketData(TicketDetails(key))
              /\ originalData' = [loaded |-> TRUE, values |-> TicketData(TicketDetails(key))]
           \/ UNCHANGED <<formData, originalData>>
        /\ detailsLoading' = FALSE
        /\ UNCHANGED <<editErrors, updateReq>>
        /\ UNCHANGED <<connVars, createVars, filterVars, requestVars>>
        /\ UNCHANGED <<parseVars, facetVars, modalVars, analyticsVars, refreshVars,
                       mutationVars>>

\* loadTicketDetails: the request throws
DetailsFail ==
    \E key \in BagToSet(detailFetches) :
        /\ detailFetches' = detailFetches (-) SetToBag({key})
        /\ editErrors' = "Impossible de charger les détails du ticket"
        /\ detailsLoading' = FALSE
        /\ UNCHANGED <<formData, originalData, updateReq>>
        /\ UNCHANGED <<connVars, createVars, filterVars, requestVars>>
        /\ UNCHANGED <<parseVars, facetVars, modalVars, analyticsVars, refreshVars,
                       mutationVars>>

\* an input of the edit form, rendered when the details are not loading
EditField ==
    /\ modalEdit
    /\ ~detailsLoading
    /\ \E f \in TextFields :
          \E value \in FieldPool(f) :
              /\ value # formData[f]
              /\ formData' = [formData EXCEPT ![f] = value]
    /\ UNCHANGED <<originalData, detailsLoading, editErrors, detailFetches, updateReq>>
    /\ UNCHANGED <<connVars, createVars, filterVars, requestVars>>
    /\ UNCHANGED <<parseVars, facetVars, modalVars, analyticsVars, refreshVars, mutationVars>>

\* EditTicketModal.handleSubmit up to the request of handleEditTicket
SubmitEdit ==
    /\ modalEdit
    /\ ~ControlDisabled("edit")
    /\ ~detailsLoading
    /\ BagCardinality(handlers) < MaxMutations
    /\ IF ~HasChanges(formData, originalData)
       THEN /\ editErrors' = "Aucune modification détectée"
            /\ UNCHANGED <<actionLoading, handlers, updateReq>>
       ELSE /\ actionLoading' = TRUE
            /\ handlers' = handlers (+) Handler("edit", "sent")
            /\ updateReq' = [sent |-> TRUE, key |-> selectedTicket,
                             body |-> updateTicket(formData)]
            /\ UNCHANGED editErrors
    /\ UNCHANGED <<formData, originalData, detailsLoading, detailFetches>>
    /\ UNCHANGED <<selectedTicket, modalTransition, modalCreate, modalEdit, modalConfirm>>
    /\ UNCHANGED <<connVars, createVars, filterVars, requestVars>>
    /\ UNCHANGED <<ModalRest, facetVars, parseVars, analyticsVars, refreshVars>>

\* handleEditTicket: the request throws or answers without success
EditFails ==
    /\ Handler("edit", "sent") \sqsubseteq handlers
    /\ handlers' = handlers (-) Handler("edit", "sent")
    /\ actionLoading' = FALSE
    /\ updateReq' = NoUpdate
    /\ \/ error' = MutationError("edit")
       \/ UNCHANGED error
    /\ UNCHANGED <<loading, data, tickets, statuses, uniqueAssignees, uniqueTypes,
                   uniquePriorities>>
    /\ UNCHANGED <<formData, originalData, detailsLoading, editErrors, detailFetches>>
    /\ UNCHANGED <<selectedTicket, modalTransition, modalCreate, modalEdit, modalConfirm>>
    /\ UNCHANGED <<connVars, createVars, filterVars, requestVars>>
    /\ UNCHANGED <<ModalRest, parseVars, analyticsVars, refreshVars>>

\* handleEditTicket: result.success, loadTickets is called and awaited
EditSucceeds ==
    /\ Handler("edit", "sent") \sqsubseteq handlers
    /\ ~data.pending
    /\ handlers' = (handlers (-) Handler("edit", "sent")) (+) Handler("edit", "reloading")
    /\ updateReq' = NoUpdate
    /\ loading' = TRUE
    /\ error' = ""
    /\ data' = [pending |-> TRUE, board |-> EditBoard]
    /\ UNCHANGED <<tickets, statuses, uniqueAssignees, uniqueTypes, uniquePriorities>>
    /\ UNCHANGED <<formData, originalData, detailsLoading, editErrors, detailFetches>>
    /\ UNCHANGED <<selectedTicket, modalTransition, actionLoading, modalCreate,
                   modalEdit, modalConfirm>>
    /\ UNCHANGED <<connVars, createVars, filterVars, requestVars>>
    /\ UNCHANGED <<ModalRest, parseVars, analyticsVars, refreshVars>>

\* the awaited loadTickets resolves, handleEditTicket returns true, and
\* handleSubmit calls onClose: closeModal('edit'), and the effect
EditDone ==
    /\ Handler("edit", "reloading") \sqsubseteq handlers
    /\ SetTickets \/ LoadTicketsFails
    /\ handlers' = handlers (-) Handler("edit", "reloading")
    /\ actionLoading' = FALSE
    /\ modalEdit' = FALSE
    /\ selectedTicket' = <<>>
    /\ ResetEditForm
    /\ UNCHANGED <<originalData, detailsLoading, detailFetches, updateReq>>
    /\ UNCHANGED <<modalTransition, modalCreate, modalConfirm>>
    /\ UNCHANGED <<connVars, createVars, filterVars, requestVars>>
    /\ UNCHANGED <<ModalRest, parseVars, analyticsVars, refreshVars>>

EditNext ==
    \/ OpenEdit
    \/ CloseEdit
    \/ DetailsResolve
    \/ DetailsFail
    \/ EditField
    \/ SubmitEdit
    \/ EditFails
    \/ EditSucceeds
    \/ EditDone

(***************************************************************************)
(* apiService.getTickets and handleFilterChange                            *)
(***************************************************************************)
Param(name, value) == [name |-> name, value |-> value]

\* the params of getTickets, were the priority filter sent as well
getTicketsParams_WithPriority(f) ==
    (IF f.search # <<>> THEN <<Param("search", f.search)>> ELSE <<>>)
    \o (IF f.assignee # <<>> /\ f.assignee # All
        THEN <<Param("assignee", f.assignee)>> ELSE <<>>)
    \o (IF f.type # <<>> /\ f.type # All THEN <<Param("type", f.type)>> ELSE <<>>)
    \o (IF f.status # <<>> /\ f.status # All THEN <<Param("status", f.status)>> ELSE <<>>)
    \o (IF f.priority # <<>> /\ f.priority # All
        THEN <<Param("priority", f.priority)>> ELSE <<>>)

\* const params of getTickets, in the order of the append calls
getTicketsParams(f) ==
    (IF f.search # <<>> THEN <<Param("search", f.search)>> ELSE <<>>)
    \o (IF f.assignee # <<>> /\ f.assignee # All
        THEN <<Param("assignee", f.assignee)>> ELSE <<>>)
    \o (IF f.type # <<>> /\ f.type # All THEN <<Param("type", f.type)>> ELSE <<>>)
    \o (IF f.status # <<>> /\ f.status # All THEN <<Param("status", f.status)>> ELSE <<>>)

\* the form encoding of URLSearchParams.toString, on the characters of the
\* filter values
RECURSIVE FormEncode(_)
FormEncode(text) ==
    IF text = <<>> THEN <<>>
    ELSE (CASE Head(text) = " " -> <<"+">>
            [] Head(text) = "&" -> <<"%", "2", "6">>
            [] OTHER -> <<Head(text)>>)
         \o FormEncode(Tail(text))

\* params.toString()
RECURSIVE QueryString(_)
QueryString(params) ==
    IF params = <<>> THEN <<>>
    ELSE <<Head(params).name, "=">> \o FormEncode(Head(params).value)
         \o (IF Tail(params) = <<>> THEN <<>> ELSE <<"&">> \o QueryString(Tail(params)))

\* const endpoint of getTickets
Endpoint(params) ==
    IF QueryString(params) # <<>> THEN <<"/tickets", "?">> \o QueryString(params)
    ELSE <<"/tickets">>

\* apiService.getTickets: the endpoint requested
getTickets(f) == Endpoint(getTicketsParams(f))

FilterFields == {"search", "assignee", "type", "status", "priority"}

\* what the inputs of the filter bar offer
FilterPool(field) ==
    CASE field = "search" -> {<<>>, All, <<"a", " ", "&">>}
      [] field = "assignee" -> {All, <<"A">>}
      [] field = "type" -> {All, <<"T">>}
      [] field = "status" -> {All, St_Done}
      [] field = "priority" -> {All, High}

\* the first board is loaded under the filters of construction
FilterInit ==
    /\ BoardShown(RefreshBoard(1))
    /\ RefreshIdle
    /\ filters = DefaultFilters
    /\ boardRequests = <<getTickets(DefaultFilters)>>

\* an input of the filter bar: handleFilterChange({ ...filters, [field]: value }),
\* that is setFilters and loadTickets(newFilters), and the effect that runs
\* again: checkHealth() and loadTickets() under the new filters
SetFilter ==
    /\ NoModalOpen
    /\ issued + 2 <= MaxBoardCalls
    /\ healthCalls < MaxHealthCalls
    /\ \E field \in FilterFields :
          \E value \in FilterPool(field) :
              /\ value # filters[field]
              /\ filters' = [filters EXCEPT ![field] = value]
    /\ boardRequests' = <<getTickets(filters'), getTickets(filters')>>
    /\ boardCalls' = boardCalls \cup ((issued + 1)..(issued + 2))
    /\ issued' = issued + 2
    /\ loading' = TRUE
    /\ error' = ""
    /\ healthCalls' = healthCalls + 1
    /\ UNCHANGED <<data, tickets, statuses, uniqueAssignees, uniqueTypes,
                   uniquePriorities, lastResolved>>
    /\ UNCHANGED <<connectionStatus, createVars, editVars, requestVars>>
    /\ UNCHANGED <<parseVars, modalVars, analyticsVars, mutationVars>>

FilterNext ==
    \/ SetFilter
    \/ BoardCallResolves
    \/ BoardCallFails
    \/ HealthResolves

(***************************************************************************)
(* apiService.makeRequest and fetchAnalytics: responses and failures       *)
(***************************************************************************)
\* response.ok: the status is in the range 200-299
ResponseOk(r) == r.status \in {"200", "201"}

Resolved == [pc |-> "resolved", message |-> <<>>]

Rejected(message) == [pc |-> "rejected", message |-> message]

\* a field of the parsed body is truthy
TruthyField(field) == field.def /\ field.text # <<>>

\* makeRequest: what the awaiting caller gets for a response with a JSON body
makeRequest(r) ==
    IF ~ResponseOk(r)
    THEN Rejected(IF TruthyField(r.message) THEN r.message.text
                  ELSE IF TruthyField(r.error) THEN r.error.text
                  ELSE <<"HTTP error! status: ", r.status>>)
    ELSE Resolved

\* fetchAnalytics: what its try block ends with for a response
fetchAnalytics(r) ==
    IF ~ResponseOk(r)
    THEN Rejected(<<"HTTP ", r.status, ": ", r.statusText>>)
    ELSE Resolved

\* the endpoints consumed through makeRequest
ApiEndpoints == {"tickets", "details", "mutation", "transitions", "health"}

StatusText(status) ==
    CASE status = "200" -> "OK"
      [] status = "201" -> "Created"
      [] status = "400" -> "Bad Request"
      [] status = "404" -> "Not Found"
      [] status = "500" -> "Internal Server Error"

\* the responses of the backend: any status, a JSON body with or without a
\* message and an error field
HttpResponses(endpoint) ==
    {[endpoint |-> endpoint, status |-> status, statusText |-> StatusText(status),
      message |-> message, error |-> err] :
        status \in {"200", "201", "400", "404", "500"},
        message \in {Absent, Given(<<"m">>)},
        err \in {Absent, Given(<<"e">>)}}

\* a request of apiService is answered
ApiResponds ==
    /\ \E endpoint \in ApiEndpoints :
          \E r \in HttpResponses(endpoint) :
              /\ httpResponse' = r
              /\ failure' = makeRequest(r)
    /\ UNCHANGED <<connVars, createVars, editVars, filterVars>>
    /\ UNCHANGED <<parseVars, facetVars, modalVars, analyticsVars, refreshVars, mutationVars>>

\* the request of fetchAnalytics is answered
AnalyticsResponds ==
    /\ \E r \in HttpResponses("analytics") :
          /\ httpResponse' = r
          /\ failure' = fetchAnalytics(r)
    /\ UNCHANGED <<connVars, createVars, editVars, filterVars>>
    /\ UNCHANGED <<parseVars, facetVars, modalVars, analyticsVars, refreshVars, mutationVars>>

RequestNext ==
    \/ ApiResponds
    \/ AnalyticsResponds

OtherIdle == AnalyticsIdle /\ RefreshIdle /\ MutationIdle /\ ClientIdle

\* the application with no modal open, in front of a backend
InitTransition == ParseIdle /\ FacetIdle /\ ModalInit /\ OtherIdle

SpecTransition == InitTransition /\ [][ModalNext]_vars

\* the application after construction, the first board request in flight
InitFacets == ParseIdle /\ FacetInit /\ ModalIdle /\ OtherIdle

SpecFacets == InitFacets /\ [][FacetNext]_vars

\* one card about to be rendered for one board entry
InitParse == ParseInit /\ FacetIdle /\ ModalIdle /\ OtherIdle

SpecParse == InitParse /\ [][ParseNext]_vars

\* the analytics dashboard after construction
InitMetrics ==
    ParseIdle /\ FacetIdle /\ ModalIdle /\ AnalyticsInit /\ RefreshIdle /\ MutationIdle
    /\ ClientIdle

SpecMetrics == InitMetrics /\ [][AnalyticsNext]_vars

\* the board after construction, its loadTickets calls told apart
InitRefresh == ParseIdle /\ ModalIdle /\ AnalyticsIdle /\ RefreshInit /\ MutationIdle /\ ClientIdle

SpecRefresh == InitRefresh /\ [][RefreshNext]_vars

\* the board loaded, the modals closed
\* a board of prefix-related keys is loaded, the transition modal is closed
InitLookup == ParseIdle /\ LookupInit /\ ModalIdle /\ OtherIdle

SpecLookup == InitLookup /\ [][LookupNext]_vars

\* after construction, in front of a backend whose health may change
InitCreate ==
    /\ ParseIdle /\ ModalIdle /\ AnalyticsIdle /\ RefreshIdle /\ MutationIdle
    /\ ConnInit /\ EditIdle /\ FilterIdle /\ RequestIdle

SpecCreate == InitCreate /\ [][CreateNext]_vars

\* the board is loaded and shows two tickets, the edit modal is closed
InitEdit ==
    /\ ParseIdle /\ ModalIdle /\ AnalyticsIdle /\ RefreshIdle
    /\ EditInit /\ ConnIdle /\ CreateIdle /\ FilterIdle /\ RequestIdle

SpecEdit == InitEdit /\ [][EditNext]_vars

\* the first board is loaded, the filters are those of construction
InitFilters ==
    /\ ParseIdle /\ ModalIdle /\ AnalyticsIdle /\ MutationIdle
    /\ FilterInit /\ ConnIdle /\ CreateIdle /\ EditIdle /\ RequestIdle

SpecFilters == InitFilters /\ [][FilterNext]_vars

\* no request was answered yet
InitRequests == ParseIdle /\ FacetIdle /\ ModalIdle /\ OtherIdle

SpecRequests == InitRequests /\ [][RequestNext]_vars

InitMutations ==
    ParseIdle /\ ModalIdle /\ AnalyticsIdle /\ RefreshIdle /\ MutationInit
    /\ ClientIdle

SpecMutations == InitMutations /\ [][MutationNext]_vars

(***************************************************************************)
(* Claims about parseTicketInfo and TicketCard (checked under SpecParse)   *)
(***************************************************************************)
HasChar(s, c) == \E i \in 1..Len(s) : s[i] = c

\* the text after the first ": " of a string that has one
AfterFirstSep(text) == SubSeq(text, IndexOf(text, SEP) + Len(SEP), Len(text))

ExpectedAssignee(A) == IF A = Unassigned THEN NonAssigne ELSE A

\* a bracket field as the format allows it: non-empty, no "]"
BracketField(x) == x # <<>> /\ ~HasChar(x, "]")

\* C1: for every K without ": ", non-empty S without "[" and ": ", and non-empty
\* A, T, P without "]", parseTicketInfo("K: S [A] [T] [P]") is exactly
\* {key: K, summary: S trimmed, assignee: A or "Non assigné" for "Unassigned",
\* issueType: T, priority: P}.
C1_ParseThreeGroups ==
    (/\ cardPc # "new"
     /\ fields.form = "three"
     /\ ~Includes(fields.K, SEP)
     /\ fields.S # <<>> /\ ~HasChar(fields.S, "[") /\ ~Includes(fields.S, SEP)
     /\ BracketField(fields.A) /\ BracketField(fields.T) /\ BracketField(fields.P))
    => ticketInfo = [key |-> fields.K,
                     summary |-> Trim(fields.S),
                     assignee |-> ExpectedAssignee(fields.A),
                     issueType |-> fields.T,
                     priority |-> fields.P]

\* C2: the input is split on the first ": " only: when the summary itself holds
\* ": ", the bracket groups behind it are still found and the record's assignee,
\* issueType and priority are A, T and P.
C2_SplitOnFirstSeparator ==
    (/\ cardPc # "new"
     /\ fields.form = "three"
     /\ ~Includes(fields.K, SEP)
     /\ Includes(fields.S, SEP) /\ ~HasChar(fields.S, "[")
     /\ BracketField(fields.A) /\ BracketField(fields.T) /\ BracketField(fields.P))
    => /\ ticketInfo # Null
       /\ ticketInfo.assignee = ExpectedAssignee(fields.A)
       /\ ticketInfo.issueType = fields.T
       /\ ticketInfo.priority = fields.P

\* C3: for every encoding with exactly two bracket groups, "K: S [A] [T]", the
\* record has the assignee of group 0 (with the Unassigned mapping), the
\* issueType of group 1 and priority "Medium".
C3_TwoGroupsDefaultMedium ==
    (/\ cardPc # "new"
     /\ fields.form = "two"
     /\ ~HasChar(fields.S, "[")
     /\ BracketField(fields.A) /\ BracketField(fields.T))
    => /\ ticketInfo # Null
       /\ ticketInfo.assignee = ExpectedAssignee(fields.A)
       /\ ticketInfo.issueType = fields.T
       /\ ticketInfo.priority = Medium

IsCompleteRecord(r) ==
    DOMAIN r = {"key", "summary", "assignee", "issueType", "priority"}

\* C4: parseTicketInfo is total: every input gives a complete record or null,
\* and null exactly when the value is no string (the internal error), the ": "
\* separator is missing, or fewer than two bracket groups follow the separator.
C4_TotalNullExactly ==
    cardPc # "new" =>
        /\ ticketInfo = Null \/ IsCompleteRecord(ticketInfo)
        /\ ticketInfo = Null <=>
              \/ ~ticket.str
              \/ ~Includes(ticket.text, SEP)
              \/ Len(BracketGroups(AfterFirstSep(ticket.text))) < 2

\* the part of C4 the code keeps: a record or null for every input, null for
\* every value that is no string and every string without ": "
C4_TotalPart ==
    cardPc # "new" =>
        /\ ticketInfo = Null \/ IsCompleteRecord(ticketInfo)
        /\ (~ticket.str \/ ~Includes(ticket.text, SEP)) => ticketInfo = Null

\* the text before the first ":" (the whole text when there is none)
BeforeFirstColon(text) ==
    LET colons == {i \in 1..Len(text) : text[i] = ":"}
    IN  IF colons = {} THEN text ELSE SubSeq(text, 1, SetMin(colons) - 1)

NoSeparatorCard ==
    cardPc = "rendered" /\ ticket.str /\ ~Includes(ticket.text, SEP)

\* C5 as stated: for every ticket string without ": ", parseTicketInfo returns
\* null and the fallback key handed to the edit, transition and delete
\* callbacks is non-empty.
C5_FallbackKeyNonEmpty ==
    NoSeparatorCard =>
        /\ ticketInfo = Null
        /\ cardKey # <<>>
        /\ callback.name # "none" => callback.key = cardKey

\* C5 as amended: for every ticket string without ": ", parseTicketInfo returns
\* null and the fallback key is the trimmed text before the first ":", handed
\* unchanged to the three callbacks; it is non-empty exactly when a character
\* that is not white space precedes the first ":".
C5_FallbackKey ==
    NoSeparatorCard =>
        /\ ticketInfo = Null
        /\ cardKey = Trim(BeforeFirstColon(ticket.text))
        /\ cardKey # <<>> <=>
              \E i \in 1..Len(ticket.text) :
                  /\ ~IsSpace(ticket.text[i])
                  /\ \A j \in 1..i : ticket.text[j] # ":"
        /\ callback.name # "none" => callback.key = cardKey

C5_Witness ==
    /\ NoSeparatorCard
    /\ HasChar(ticket.text, ":")
    /\ cardKey # <<>>
    /\ cardKey # BeforeFirstColon(ticket.text)
    /\ callback.name = "onTransition"

(***************************************************************************)
(* Claims about the facets and the status order (checked under SpecFacets) *)
(***************************************************************************)
BoardLoaded == ~data.pending

Entries == Range(FlatValues(tickets))

ParsableEntries == {t \in Entries : parseTicketInfo(t) # Null}

NoDuplicates(seq) == \A i, j \in 1..Len(seq) : seq[i] = seq[j] => i = j

\* the encodings "K: S [A] [T] [P]" a board of the model may hold, with their
\* fields: every one is a parsable ticket of the format
FormatSummaries == {<<"s">>, <<"a", ":", " ", "b">>}
FormatAssignees == {<<"A">>, <<"B">>, <<"C">>, Unassigned}
FormatTypes == {<<"T">>, <<"U">>}
FormatPriorities == {<<"P">>, <<"Q">>, High}

\* C6: for every board (the empty one and those with unparsable entries
\* included) the derived priorities contain Low, Medium, High and Highest and
\* every priority of a parsable ticket; the derived assignees are exactly the
\* distinct assignees of the parsable tickets other than "Non assigné".
C6_FacetsOfFormat ==
    BoardLoaded =>
        /\ {Low, Medium, High, Highest} \subseteq Range(uniquePriorities)
        /\ NonAssigne \notin Range(uniqueAssignees)
        /\ NoDuplicates(uniqueAssignees)
        /\ \A S \in FormatSummaries, A \in FormatAssignees,
              T \in FormatTypes, P \in FormatPriorities :
              Str(Encode3(<<"K">>, S, A, T, P)) \in Entries =>
                  /\ P \in Range(uniquePriorities)
                  /\ A # Unassigned => A \in Range(uniqueAssignees)

\* the part of C6 that holds: the same statement over the entries for which
\* parseTicketInfo returns a record
C6_Facets ==
    BoardLoaded =>
        /\ {Low, Medium, High, Highest} \subseteq Range(uniquePriorities)
        /\ \A t \in ParsableEntries :
              parseTicketInfo(t).priority \in Range(uniquePriorities)
        /\ Range(uniqueAssignees) =
              {parseTicketInfo(t).assignee : t \in ParsableEntries} \ {NonAssigne}
        /\ NoDuplicates(uniqueAssignees)

C6_Witness ==
    /\ BoardLoaded
    /\ \E t \in Entries : parseTicketInfo(t) = Null
    /\ \E t \in ParsableEntries : parseTicketInfo(t).assignee = NonAssigne
    /\ \E t \in ParsableEntries : parseTicketInfo(t).priority \notin Range(AVAILABLE_PRIORITIES)
    /\ uniqueAssignees # <<>>

\* the ranks the claim gives: the synonyms it names, the other spellings of the
\* three stages, and 999 for every other label
ClaimedRank(a) ==
    IF a \in {St_A_faire_accent, St_Todo, St_Open, St_A_faire, St_TO_DO} THEN 1
    ELSE IF a \in {St_En_cours, St_In_Progress, St_IN_PROGRESS, St_Progress} THEN 2
    ELSE IF a \in {St_Termine, St_Terminee, St_Termines, St_Terminees, St_Done,
                   St_Closed, St_Resolved, St_DONE} THEN 3
    ELSE 999

IsPermutation(a, b) ==
    /\ Len(a) = Len(b)
    /\ Range(a) = Range(b)
    /\ NoDuplicates(a)

\* C7: getOrderedStatuses returns a permutation of the board's status keys
\* sorted by rank (To-do synonyms 1, In-progress synonyms 2, Done synonyms 3,
\* among them Terminé, Terminée, Terminés and Terminées, every other label 999),
\* equal ranks in alphabetical order; Done, À faire, En cours, Mystery is
\* ordered À faire, En cours, Done, Mystery.
C7_StatusOrder ==
    BoardLoaded =>
        /\ IsPermutation(statuses, ObjectKeys(tickets))
        /\ \A i, j \in 1..Len(statuses) :
              i < j =>
                 \/ ClaimedRank(statuses[i]) < ClaimedRank(statuses[j])
                 \/ /\ ClaimedRank(statuses[i]) = ClaimedRank(statuses[j])
                    /\ LocaleCompare(statuses[i], statuses[j]) < 0
        /\ ObjectKeys(tickets) = ExampleKeys =>
              statuses = <<St_A_faire_accent, St_En_cours, St_Done, St_Mystery>>

\* the part of C7 the code keeps: the order by the ranks of statusOrder, in which
\* Terminés is no key and ranks 999
C7_CodeOrder ==
    BoardLoaded =>
        /\ IsPermutation(statuses, ObjectKeys(tickets))
        /\ \A i, j \in 1..Len(statuses) :
              i < j =>
                 \/ StatusRank(statuses[i]) < StatusRank(statuses[j])
                 \/ /\ StatusRank(statuses[i]) = StatusRank(statuses[j])
                    /\ LocaleCompare(statuses[i], statuses[j]) < 0
        /\ ObjectKeys(tickets) = ExampleKeys =>
              statuses = <<St_A_faire_accent, St_En_cours, St_Done, St_Mystery>>

(***************************************************************************)
(* Claims about the transition workflow (checked under SpecTransition)     *)
(***************************************************************************)
CompletionWords ==
    {<<"d", "o", "n", "e">>,
     <<"t", "e", "r", "m", "i", "n", "é">>,
     <<"t", "e", "r", "m", "i", "n", "e">>,
     <<"c", "l", "o", "s", "e">>,
     <<"r", "e", "s", "o", "l", "v", "e">>}

\* the policy of the spec: the lower-cased name contains a completion word
RequiresClosureComment(name) ==
    \E word \in CompletionWords : Includes(ToLowerCase(name), word)

\* the names of TransitionNames that hold a completion word in some case
CompletionNames ==
    {Tr_Mark_as_Done,
     <<"T", "E", "R", "M", "I", "N", "É">>,
     <<"T", "e", "r", "m", "i", "n", "e", "r">>,
     <<"C", "L", "O", "S", "E">>,
     <<"R", "e", "s", "o", "l", "v", "e", "d">>}

\* C8: isTransitionToDone(name) is true exactly when the lower-cased name
\* contains one of done, terminé, termine, close, resolve; it is true for
\* "Mark as Done" and false for "Reopen". The comment field is rendered for a
\* selected name exactly when isTransitionToDone is true of it.
C8_TransitionToDone ==
    /\ commentSection <=>
          (selectedTransition # <<>> /\ RequiresClosureComment(selectedTransition))
    /\ selectedTransition \in CompletionNames => commentSection
    /\ selectedTransition \in (TransitionNames \cup {Tr_Reopen}) \ CompletionNames
          => ~commentSection
    /\ selectedTransition = Tr_Mark_as_Done => commentSection
    /\ selectedTransition = Tr_Reopen => ~commentSection

C8_Witness ==
    /\ modalTransition
    /\ selectedTransition = Tr_Mark_as_Done
    /\ commentSection

\* a step that sends a transition request
SendsTransition == txPc = "idle" /\ txPc' = "sent"

\* C9: a transition request is sent only when a transition name is selected,
\* and when the selected name requires a closure comment only if the comment is
\* not blank, the body then carrying the trimmed comment; after any sequence of
\* select, edit and submit actions.
C9_SubmitGuard ==
    [][SendsTransition =>
          /\ selectedTransition # <<>>
          /\ txReq'.body.transition_name = selectedTransition
          /\ RequiresClosureComment(selectedTransition) =>
                /\ Trim(comment) # <<>>
                /\ txReq'.body.hasComment
                /\ txReq'.body.comment = Trim(comment)]_vars

C9_Witness ==
    /\ txPc = "sent"
    /\ RequiresClosureComment(txReq.body.transition_name)
    /\ txReq.body.hasComment
    /\ txReq.body.comment = <<"o", "k">>
    /\ comment # txReq.body.comment

\* a step that opens the transition modal
OpensModal == ~modalTransition /\ modalTransition'

\* a step in which a getTransitions call resolves
FetchResolves == BagCardinality(fetches') < BagCardinality(fetches)

\* what the claim says a resolution leaves: the names of a successful response
\* with a mapping, no option after a failure or an unsuccessful response, and
\* the loading state left
ResolutionLeavesLoading ==
    FetchResolves =>
        /\ ~loadingTransitions'
        /\ (~lastResponse'.thrown /\ lastResponse'.success /\ lastResponse'.hasTransitions)
              => availableTransitions' = lastResponse'.names
        /\ (lastResponse'.thrown \/ ~lastResponse'.success)
              => availableTransitions' = <<>>

\* C10 as stated: opening the transition modal for a ticket enters the loading
\* state, and every resolution of the fetch leaves it with the options of the
\* response (none after a failure).
C10_LoadingStates ==
    [][/\ OpensModal => loadingTransitions'
       /\ ResolutionLeavesLoading]_vars

\* C10 as amended: opening the transition modal for a ticket whose key is not
\* empty enters the loading state (for an empty key no fetch is started), and
\* every resolution of the fetch leaves it with the options of the response
\* (none after a failure).
C10_LoadingStatesForKey ==
    [][/\ (OpensModal /\ Truthy(selectedTicket')) =>
             (loadingTransitions' /\ BagCardinality(fetches') > BagCardinality(fetches))
       /\ (OpensModal /\ ~Truthy(selectedTicket')) =>
             (loadingTransitions' = loadingTransitions /\ fetches' = fetches)
       /\ ResolutionLeavesLoading]_vars

C10_Witness ==
    /\ modalTransition
    /\ Truthy(selectedTicket)
    /\ lastResponse.thrown
    /\ ~loadingTransitions
    /\ availableTransitions = <<>>
    /\ fetches = EmptyBag

\* a step in which the submitted transition fails
TransitionFailure == txPc = "sent" /\ txPc' = "idle"

\* a step in which the submitted transition succeeds
TransitionSuccess == txPc = "sent" /\ txPc' = "reloading"

\* a step in which the handlers of a successful transition finish
TransitionCompletes == txPc = "reloading" /\ txPc' = "idle"

\* C11: a submitted transition resolves to exactly one of two outcomes: on
\* success a full board reload is issued before the modal is closed and the
\* selection and the comment are cleared; on failure the modal stays as it is,
\* with the selected transition, the comment and the offered transitions
\* unchanged.
C11_TransitionOutcomes ==
    [][/\ (txPc = "sent" /\ txPc' # "sent") => (TransitionFailure \/ TransitionSuccess)
       /\ TransitionFailure =>
             /\ modalTransition' = modalTransition
             /\ selectedTicket' = selectedTicket
             /\ selectedTransition' = selectedTransition
             /\ comment' = comment
             /\ availableTransitions' = availableTransitions
       /\ TransitionSuccess =>
             /\ ~data.pending /\ data'.pending /\ loading'
             /\ modalTransition' = modalTransition
             /\ selectedTransition' = selectedTransition
             /\ comment' = comment
       /\ TransitionCompletes =>
             /\ ~data.pending
             /\ ~modalTransition'
             /\ selectedTransition' = <<>>
             /\ comment' = <<>>
       /\ (txPc' = "idle" /\ txPc = "idle") => ~actionLoading']_vars

C11_Witness ==
    /\ txPc = "idle"
    /\ error = "Erreur lors du changement de statut"
    /\ modalTransition
    /\ selectedTransition = Tr_Mark_as_Done
    /\ comment = <<" ", "o", "k", " ">>
    /\ availableTransitions = <<Tr_Mark_as_Done, Tr_Reopen>>

(***************************************************************************)
(* Claims about the analytics metrics (checked under SpecMetrics)          *)
(***************************************************************************)
\* the snapshot on display is the one the endpoint answered
SnapshotLoaded == ~analyticsData.pending /\ analytics = analyticsData.snapshot

\* the weekly counts of the snapshot as integers, an absent count being 0
WeekCounts ==
    IF analytics.tickets_per_week.def
    THEN [i \in 1..Len(analytics.tickets_per_week.items) |->
             IF analytics.tickets_per_week.items[i].def
             THEN analytics.tickets_per_week.items[i].num ELSE 0]
    ELSE <<>>

RECURSIVE SumBetween(_, _, _)
SumBetween(counts, lo, hi) ==
    IF lo > hi THEN 0 ELSE counts[lo] + SumBetween(counts, lo + 1, hi)

RecentLen == IF Len(WeekCounts) < 4 THEN Len(WeekCounts) ELSE 4
FirstLen == RecentLen \div 2
SecondLen == RecentLen - FirstLen
RecentStart == Len(WeekCounts) - RecentLen + 1
FirstSum == SumBetween(WeekCounts, RecentStart, RecentStart + FirstLen - 1)
SecondSum == SumBetween(WeekCounts, RecentStart + FirstLen, Len(WeekCounts))

\* (secondMean - firstMean) / firstMean * 100 as the fraction PctNum / PctDen
PctNum == 100 * (SecondSum * FirstLen - FirstSum * SecondLen)
PctDen == FirstSum * SecondLen

FirstMeanNonZero == FirstLen >= 1 /\ FirstSum # 0

NumOf(counts) == [i \in 1..Len(counts) |-> [def |-> TRUE, num |-> counts[i], den |-> 1]]

\* C12: the trend is classified from the last min(4, n) weekly counts, the
\* first half being the floor(m/2) earliest of them: with a non-zero first-half
\* mean it is up iff the percentage is above 10, down iff it is below -10 and
\* stable otherwise (10 and -10 are stable); [5,5,12,13] gives 150 and up.
C12_TrendClassification ==
    /\ FirstMeanNonZero =>
          /\ metrics.trend = "up" <=> PctNum > 10 * PctDen
          /\ metrics.trend = "down" <=> PctNum < -10 * PctDen
          /\ metrics.trend = "stable" <=> (PctNum <= 10 * PctDen /\ PctNum >= -10 * PctDen)
    /\ WeekCounts = <<5, 5, 12, 13>> =>
          /\ metrics.trend = "up"
          /\ metrics.trendValue = [def |-> TRUE, num |-> 150, den |-> 1]

C12_Witness ==
    /\ SnapshotLoaded
    /\ analytics.tickets_per_week.items = NumOf(<<20, 5, 5, 5, 6>>)
    /\ metrics.trend = "stable"
    /\ metrics.trendValue = [def |-> TRUE, num |-> 10, den |-> 1]

\* C13: whenever the first-half mean of the recent weekly counts is 0 (fewer
\* than two buckets, all-zero first halves such as [0,0,3,4]) the trend is
\* stable with magnitude 0 and nothing is divided by zero; for every input the
\* reported trendValue is the absolute value of the percentage, so >= 0.
C13_ZeroFirstHalf ==
    /\ ~FirstMeanNonZero =>
          /\ metrics.trend = "stable"
          /\ metrics.trendValue = [def |-> TRUE, num |-> 0, den |-> 1]
    /\ metrics.trendValue.den > 0
    /\ metrics.trendValue.num >= 0
    /\ FirstMeanNonZero =>
          metrics.trendValue.num * PctDen
             = (IF PctNum < 0 THEN -PctNum ELSE PctNum) * metrics.trendValue.den

C13_Witness ==
    /\ SnapshotLoaded
    /\ analytics.tickets_per_week.items = NumOf(<<0, 0, 3, 4>>)
    /\ metrics.trend = "stable"
    /\ metrics.trendValue.num = 0

\* the type distribution of the snapshot, in the mapping's iteration order
TypeEntries ==
    IF analytics.type_distribution.def THEN analytics.type_distribution.items ELSE <<>>

\* the count of an entry as an integer, an absent count being 0
EntryCount(e) == IF e.count.def THEN e.count.num ELSE 0

MaxEntryCount == SetMax({EntryCount(TypeEntries[i]) : i \in 1..Len(TypeEntries)})

\* the first key, in iteration order, that has the maximum count
FirstKeyOfMaximum ==
    TypeEntries[SetMin({i \in 1..Len(TypeEntries) :
                           EntryCount(TypeEntries[i]) = MaxEntryCount})].key

\* C14: mostCommonType is a key of typeDistribution with the maximum count;
\* when several keys share the maximum it is the one that comes first in the
\* mapping's iteration order ({Bug: 3, Task: 3} gives Bug); for the empty
\* distribution it is "N/A".
C14_MostCommonType ==
    /\ TypeEntries = <<>> => metrics.mostCommonType = "N/A"
    /\ TypeEntries # <<>> => metrics.mostCommonType = FirstKeyOfMaximum

\* the part of C14 that holds: mostCommonType is a key with the maximum count,
\* and "N/A" for the empty distribution
C14_KeyOfMaximum ==
    /\ TypeEntries = <<>> => metrics.mostCommonType = "N/A"
    /\ TypeEntries # <<>> =>
          \E i \in 1..Len(TypeEntries) :
              /\ TypeEntries[i].key = metrics.mostCommonType
              /\ EntryCount(TypeEntries[i]) = MaxEntryCount

\* the dashboard is rendered: not the spinner, not the error screen
DashboardShown == ~analyticsLoading /\ analyticsError = ""

\* C15: when the average resolution time is 0 the metrics carry the "no
\* resolved tickets in period" qualifier, and no consumer (the status of the
\* insights panel, the text of the trends view) labels that 0 as an excellent
\* resolution result.
C15_ZeroResolutionNotExcellent ==
    (DashboardShown /\ metrics.avgResolutionTime.num = 0) =>
        /\ metrics.noteForAverage = " (No resolved tickets in period)"
        /\ insight.note = " (No resolved tickets in period)"
        /\ insight.status # "excellent"
        /\ insight.text # "Temps de résolution excellent"

\* the part of C15 that holds: the qualifier is carried exactly for a time of 0
C15_Qualifier ==
    /\ metrics.avgResolutionTime.num = 0 <=>
          metrics.noteForAverage = " (No resolved tickets in period)"
    /\ insight.note = metrics.noteForAverage

\* a numeric field of the snapshot is present and not zero
Present(x) == x.def /\ x.num # 0

WeekTotal == SumBetween(WeekCounts, 1, Len(WeekCounts))
BucketCount == IF Len(WeekCounts) > 1 THEN Len(WeekCounts) ELSE 1

\* C16: totalTickets is the snapshot's total_tickets when that is present and
\* not zero, otherwise the sum of the weekly counts; weeklyAverage is the
\* snapshot's weekly_average when present and not zero, otherwise
\* totalTickets / max(number of weekly buckets, 1), 0 when there are no tickets.
C16_Totals ==
    /\ Present(analytics.total_tickets) => metrics.totalTickets = analytics.total_tickets
    /\ ~Present(analytics.total_tickets) =>
          metrics.totalTickets = [def |-> TRUE, num |-> WeekTotal, den |-> 1]
    /\ Present(analytics.weekly_average) => metrics.weeklyAverage = analytics.weekly_average
    /\ ~Present(analytics.weekly_average) =>
          /\ metrics.weeklyAverage.den > 0
          /\ metrics.weeklyAverage.num * metrics.totalTickets.den * BucketCount
                = metrics.totalTickets.num * metrics.weeklyAverage.den

C16_Witness ==
    /\ SnapshotLoaded
    /\ analytics.total_tickets = [def |-> TRUE, num |-> 0, den |-> 1]
    /\ ~analytics.weekly_average.def
    /\ WeekCounts = <<3, 0, 4>>
    /\ metrics.totalTickets.num = 7
    /\ metrics.weeklyAverage = [def |-> TRUE, num |-> 7, den |-> 3]

(***************************************************************************)
(* Claims about concurrent board refreshes (checked under SpecRefresh)     *)
(***************************************************************************)
\* C17: when several board refreshes are in flight at once, each resolving
\* response replaces the displayed board wholesale, so after all of them have
\* resolved the displayed board is the payload of the response that resolved
\* last, whatever the order in which the requests were issued.
C17_LastResponseWins ==
    /\ lastResolved.ok => tickets = RefreshBoard(lastResolved.id)
    /\ (boardCalls = {} /\ lastResolved.ok) =>
          /\ tickets = RefreshBoard(lastResolved.id)
          /\ statuses = <<St_Done>>
          /\ Len(FlatValues(tickets)) = 1

C17_Witness ==
    /\ boardCalls = {}
    /\ issued >= 3
    /\ lastResolved = [id |-> 1, ok |-> TRUE]
    /\ tickets = RefreshBoard(1)
    /\ tickets # RefreshBoard(issued)

\* C18: the in-flight indicator is accurate under every interleaving: in every
\* reachable state in which a board fetch was issued and has not resolved, the
\* loading flag is true.
C18_LoadingAccurate == boardCalls # {} => loading

\* a step in which a board fetch fails
BoardFetchFails ==
    /\ boardCalls' # boardCalls
    /\ issued' = issued
    /\ ~lastResolved'.ok

\* C20: a failed board fetch sets a dismissible error message and leaves the
\* displayed board equal to the last successfully loaded board; a failure
\* never empties or otherwise changes the board.
C20_FailureKeepsBoard ==
    [][BoardFetchFails => (error' # "" /\ tickets' = tickets /\ statuses' = statuses)]_vars

\* the part of C20 that holds: a failed fetch sets an error message, which the
\* dismiss button clears
C20_ErrorSet ==
    [][/\ BoardFetchFails => error' # ""
       /\ (error # "" /\ error' = "" /\ issued' = issued) =>
             (tickets' = tickets /\ boardCalls' = boardCalls)]_vars

(***************************************************************************)
(* Claims about the mutations (checked under SpecMutations)                *)
(***************************************************************************)
\* C19: at most one mutation request (create, update, delete or transition)
\* is in flight at any time: from the submission of a mutation until its
\* handler finishes, the board reload it triggers included, actionLoading is
\* true and every submit or confirm control of every modal is disabled, under
\* any interleaving of modal open and close actions and network completions.
C19_OneMutation ==
    /\ BagCardinality(handlers) <= 1
    /\ handlers # EmptyBag =>
          /\ actionLoading
          /\ \A kind \in MutationKinds : ControlDisabled(kind)
    /\ (data.pending /\ handlers # EmptyBag) => actionLoading

C19_Witness ==
    /\ handlers = Handler("confirm", "reloading")
    /\ data.pending
    /\ actionLoading
    /\ ~modalConfirm
    /\ modalCreate

(***************************************************************************)
(* Further claims about the transition modal (checked under SpecTransition)*)
(***************************************************************************)
\* a step in which the getTransitions call for key resolves
FetchResolvesFor(key) ==
    /\ key \in BagToSet(fetches)
    /\ fetches' = fetches (-) SetToBag({key})

\* C25: whenever the transition modal is open and not loading, the transitions
\* it offers are those fetched for the selected ticket (or none): a response
\* for a previously selected ticket that resolves after the modal was closed
\* and reopened for another ticket neither populates the options nor ends the
\* loading state of the new ticket.
C25_NoStaleTransitions ==
    [][\A key \in TicketKeys :
          (/\ FetchResolvesFor(key)
           /\ modalTransition
           /\ Truthy(selectedTicket)
           /\ selectedTicket # <<key>>) =>
              /\ availableTransitions' = availableTransitions
              /\ loadingTransitions' = loadingTransitions]_vars

\* the part of C25 that holds: a response that resolves while the modal is
\* closed is not offered once the modal is opened again, unless it resolves
\* after the reopening
C25_ResetOnClose ==
    [][(modalTransition /\ ~modalTransition') => availableTransitions' = <<>>]_vars

\* C29: a transition request carries a comment only if the comment field was
\* visible for the transition being submitted: after a closure comment was
\* typed for a completion transition and a transition that requires none was
\* selected, the request for that second transition carries no comment.
C29_CommentOnlyIfVisible ==
    [][SendsTransition => (txReq'.body.hasComment => commentSection)]_vars

\* the part of C29 that holds: a comment that is sent is the trimmed text of
\* the comment state
C29_CommentIsState ==
    [][SendsTransition =>
          (txReq'.body.hasComment => txReq'.body.comment = Trim(comment))]_vars

(***************************************************************************)
(* Further claims about the mutation handlers (checked under SpecMutations)*)
(***************************************************************************)
\* C26: in every reachable state where the edit or the transition modal is
\* open, selectedTicket is the non-null key that modal was opened for; a
\* mutation that completes after its modal was closed with the header button
\* and another modal was opened does not reset selectedTicket.
C26_SelectedTicketOfOpenModal ==
    (modalEdit \/ modalTransition) => selectedTicket = <<Key1>>

\* the part of C26 that holds: openModal sets the key of the modal it opens
C26_OpenSetsKey ==
    [][((~modalEdit /\ modalEdit') \/ (~modalTransition /\ modalTransition'))
          => selectedTicket' = <<Key1>>]_vars

(***************************************************************************)
(* Further claims about the analytics dashboard (checked under SpecMetrics)*)
(***************************************************************************)
\* a step in which a pending analytics fetch resolves with a snapshot that
\* replaces the one displayed (a failed fetch leaves analytics untouched)
AnalyticsFetchSucceeds ==
    /\ analyticsData.pending
    /\ ~analyticsData'.pending
    /\ analytics' # analytics

\* C27: after an analytics fetch fails and a later fetch (Retry) succeeds, the
\* dashboard displays the newly fetched analytics: in every state reached
\* after a successful fetch with no later failure, the error view is not
\* shown.
C27_SuccessClearsError ==
    [][AnalyticsFetchSucceeds => analyticsError' = ""]_vars

\* the part of C27 that holds: a successful fetch stores the fetched snapshot
C27_SuccessStoresSnapshot ==
    [][AnalyticsFetchSucceeds => analytics' = analyticsData.snapshot]_vars

(***************************************************************************)
(* Claims about findTicketStatus (checked under SpecLookup)                *)
(***************************************************************************)
\* the status of the column that holds the ticket whose key is exactly key,
\* <<>> when no column does
RECURSIVE StatusOfKey(_, _)
StatusOfKey(board, key) ==
    IF board = <<>> THEN <<>>
    ELSE IF \E i \in 1..Len(Head(board).list) :
                parseTicketInfo(Head(board).list[i]).key = key
         THEN <<Head(board).status>>
         ELSE StatusOfKey(Tail(board), key)

\* C28: for every board and every ticket key k on it, findTicketStatus(k) is
\* the status of the column that contains the ticket whose key is exactly k,
\* also when another ticket's key has k as a proper prefix; it is null when
\* no ticket has key k.
C28_ExactKeyStatus ==
    \A key \in LookupKeys : findTicketStatus(tickets, key) = StatusOfKey(tickets, key)

\* the part of C28 that holds: the status found is that of a column one of
\* whose tickets has a key that starts with k, and a key on the board is
\* never answered with null
C28_PrefixKeyStatus ==
    \A key \in LookupKeys :
        /\ StatusOfKey(tickets, key) # <<>> => findTicketStatus(tickets, key) # <<>>
        /\ findTicketStatus(tickets, key) # <<>> =>
              \E other \in LookupKeys :
                  /\ StartsWith(other, key)
                  /\ StatusOfKey(tickets, other) = findTicketStatus(tickets, key)

(***************************************************************************)
(* Claims about the connection status and the create form (SpecCreate)     *)
(***************************************************************************)
\* a step in which the create request is sent
SendsCreate == handlers' = handlers (+) Handler("create", "sent")

\* C22: in every state where the connection status is not 'connected' the
\* warning banner is shown and ticket creation is disabled, so no create
\* request is sent while the status is not 'connected'.
C22_NoCreateUnlessConnected ==
    [][SendsCreate => connectionStatus = "connected"]_vars

\* the part of C22 that holds: while the status is not 'connected' the banner
\* is shown, the create button is disabled and the create modal is not opened
C22_CreateButtonGuard ==
    [][/\ connectionStatus # "connected" => (ConnectionWarning /\ CreateButtonDisabled)
       /\ (~modalCreate /\ modalCreate') => connectionStatus = "connected"]_vars

\* the create half of C21: no create request is sent while the summary or the
\* issue type is blank
C21_CreateValidated ==
    [][SendsCreate =>
          (Trim(createData.summary) # <<>> /\ Trim(createData.issueType) # <<>>)]_vars

(***************************************************************************)
(* Claims about the edit modal and the update request (SpecEdit)           *)
(***************************************************************************)
\* a step in which the update request is sent
SendsUpdate == ~updateReq.sent /\ updateReq'.sent

\* the values loaded for the ticket the modal is open for
LoadedValues == TicketData(TicketDetails(selectedTicket[1]))

\* C21: no update request is sent from the edit modal unless at least one
\* editable field differs from the values loaded for the ticket currently
\* being edited, after any sequence of opening, closing and reopening the
\* modal for different tickets, also when the detail fetch fails.
C21_UpdateOnlyOnChange ==
    [][SendsUpdate =>
          /\ Truthy(selectedTicket)
          /\ originalData = [loaded |-> TRUE, values |-> LoadedValues]
          /\ \E f \in EditableFields : formData[f] # LoadedValues[f]]_vars

\* the value the form holds for a field, as the request should carry it
FormValue(f) == IF f \in TextFields THEN Trim(formData[f]) ELSE formData[f]

\* C24: the body of an update request contains a field f among summary,
\* description, priority, issueType and assignee if and only if the form value
\* of f is non-empty (non-blank after trimming for summary and description),
\* each included value being the form value (trimmed for summary and
\* description); no other field is ever included.
C24_UpdateBody ==
    [][SendsUpdate =>
          /\ DOMAIN updateReq'.body = EditableFields
          /\ \A f \in EditableFields :
                /\ updateReq'.body[f].def <=> FormValue(f) # <<>>
                /\ updateReq'.body[f].def => updateReq'.body[f].text = FormValue(f)]_vars

\* an update request in flight whose summary was trimmed and whose priority
\* was left out
C24_Witness ==
    /\ updateReq.sent
    /\ updateReq.body["summary"] = Given(<<"n">>)
    /\ ~updateReq.body["priority"].def
    /\ updateReq.body["issueType"].def

(***************************************************************************)
(* Claims about the board request (SpecFilters)                            *)
(***************************************************************************)
\* the filters a board request names: those with a non-empty value that, for
\* assignee, type and status, is not 'all'
NamedFilters ==
    SelectSeq(<<"search", "assignee", "type", "status">>,
              LAMBDA field : /\ filters[field] # <<>>
                             /\ field # "search" => filters[field] # All)

\* C30: the query of a board request is a function of the search, assignee,
\* type and status filters only: a parameter is included iff its filter value
\* is non-empty and (for assignee, type, status) different from 'all', and two
\* filter states that differ only in the priority filter issue identical
\* requests.
C30_QueryOfFilters ==
    /\ \A i \in 1..Len(boardRequests) :
          boardRequests[i] =
              Endpoint([j \in 1..Len(NamedFilters) |->
                           Param(NamedFilters[j], filters[NamedFilters[j]])])
    /\ \A value \in FilterPool("priority") :
          getTickets([filters EXCEPT !.priority = value]) = getTickets(filters)

\* the board was requested under a priority filter and a search text
C30_Witness ==
    /\ filters.priority = High
    /\ filters.search = <<"a", " ", "&">>
    /\ boardRequests = <<<<"/tickets", "?", "search", "=", "a", "+", "%", "2", "6">>,
                         <<"/tickets", "?", "search", "=", "a", "+", "%", "2", "6">>>>

(***************************************************************************)
(* Claims about responses and failures (SpecRequests)                      *)
(***************************************************************************)
\* the failure message a non-2xx response is to be surfaced with: its message
\* field if present, else its error field, else any text with the status
ExpectedMessage(r, text) ==
    IF r.message.def THEN text = r.message.text
    ELSE IF r.error.def THEN text = r.error.text
    ELSE \E i \in 1..Len(text) : text[i] = r.status

\* C23: every non-2xx response from any consumed endpoint is surfaced as a
\* failure whose message is the response's message field if present, else its
\* error field, else a generic message containing the HTTP status; a 2xx
\* response is never surfaced as a failure.
C23_FailureMessage ==
    httpResponse.endpoint # "none" =>
        IF ResponseOk(httpResponse)
        THEN failure.pc = "resolved"
        ELSE failure.pc = "rejected" /\ ExpectedMessage(httpResponse, failure.message)

\* the part of C23 that holds: the claim for the endpoints consumed through
\* makeRequest, and for every endpoint that a response fails iff it is not 2xx
C23_ApiFailureMessage ==
    httpResponse.endpoint # "none" =>
        /\ failure.pc = "resolved" <=> ResponseOk(httpResponse)
        /\ (httpResponse.endpoint \in ApiEndpoints /\ ~ResponseOk(httpResponse)) =>
              ExpectedMessage(httpResponse, failure.message)

====
